---- MODULE Spec2Model ----
(***************************************************************************)
(* SPLINTER B-spline builder (BSpline::Builder): the fluent setters of     *)
(* bsplinebuilder.h, build() and the three knot-vector strategies of       *)
(* bsplinebuilder.cpp.                                                     *)
(*                                                                         *)
(* Representation of the C++ value types:                                  *)
(*  - double: an exact rational <<num, den>> in lowest terms with den > 0; *)
(*    quiet NaN is <<0, 0>>.  Rounding of IEEE doubles is not modelled.    *)
(*  - unsigned int: held in two's complement, i.e. a value v >= 2^31 is    *)
(*    written v - 2^32 (UINT_MAX is -1).  Addition and subtraction modulo  *)
(*    2^32 are then + and - as long as no intermediate value leaves        *)
(*    -2^31..2^31-1, which TLC itself reports as an overflow.  Only the    *)
(*    unsigned comparison differs from the signed one (ULess).             *)
(*  - std::vector: a sequence; C++ index i is TLA+ index i+1.              *)
(***************************************************************************)
EXTENDS Integers, Sequences, FiniteSets, TLC

VARIABLES
    store,              \* the caller's DataTable, from which the Builder was constructed
    eigen,              \* what the linear-algebra library returns on this run's systems
    _data,              \* DataTable captured by value at construction
    _degrees,           \* std::vector<unsigned int>
    _numBasisFunctions, \* std::vector<unsigned int>
    _knotSpacing,       \* KnotSpacing
    _smoothing,         \* Smoothing
    _alpha,             \* double
    _padding,           \* double
    _weights,           \* std::vector<double>
    _bounds,            \* std::vector<std::array<double,2>>
    _hfsIters,          \* unsigned int
    call,               \* the last member function called, its argument and outcome
    error,              \* the C interface's process-wide error flag
    native,             \* the last C interface function called and how it was left
    gocall,             \* the last function of the Go binding called and what it returned
    bs,                 \* the Go program's BSpline object
    dt,                 \* the Go program's DataTable object, or nil
    builder             \* the Go program's BSplineBuilder object, or nil

fields == <<_degrees, _numBasisFunctions, _knotSpacing, _smoothing, _alpha,
            _padding, _weights, _bounds, _hfsIters>>

\* what no member function of the Builder can reach
outside == <<store, eigen>>

vars == <<store, eigen, _data, _degrees, _numBasisFunctions, _knotSpacing, _smoothing, _alpha,
          _padding, _weights, _bounds, _hfsIters, call, error, native, gocall, bs, dt, builder>>

\* the state of the language bindings, which no C++ caller touches
bindings == <<error, native, gocall, bs, dt, builder>>

\* no binding function has been called
NoCall == [op |-> "none"]

\* a BSpline as new(BSpline) allocates it: its ptr is nil
ZeroBSpline == [ptr |-> "nullptr"]

\* a Go pointer to no object
nil == [nil |-> TRUE]

\* the DataTable and the BSplineBuilder the Go constructors return
NewDataTableObject == [ptr |-> "datatable_ptr"]

NewBSplineBuilderObject == [ptr |-> "bspline_builder_ptr"]

\* the two objects a Go program holds after its calls of the constructors
gowrappers == <<dt, builder>>

Unbound ==
    /\ error = FALSE /\ native = NoCall /\ gocall = NoCall
    /\ bs = ZeroBSpline /\ dt = nil /\ builder = nil

----------------------------------------------------------------------------
(* Bounds of the model *)

\* largest number of distinct values on an axis of a sample table
MaxN == 11

\* largest number of samples the caller's table grows to
MaxSamples == 8

\* largest number of samples the Go program's table grows to
MaxRows == 4

\* largest numerator and denominator of a lambda handed back to alpha()
MaxLambda == 64

----------------------------------------------------------------------------
(* double arithmetic on exact rationals *)

Abs(x) == IF x < 0 THEN -x ELSE x

RECURSIVE GCD(_, _)
GCD(a, b) == IF b = 0 THEN a ELSE GCD(b, a % b)

NaN == <<0, 0>>

Rat(n, d) ==
    IF d = 0 THEN NaN
    ELSE LET g == GCD(Abs(n), Abs(d))
             s == IF d < 0 THEN -1 ELSE 1
         IN  <<(s * n) \div g, (s * d) \div g>>

Dbl(n) == <<n, 1>>

isnan(x) == x[2] = 0

RAdd(x, y) == IF isnan(x) \/ isnan(y) THEN NaN
              ELSE Rat(x[1] * y[2] + y[1] * x[2], x[2] * y[2])

RSub(x, y) == IF isnan(x) \/ isnan(y) THEN NaN
              ELSE Rat(x[1] * y[2] - y[1] * x[2], x[2] * y[2])

RMul(x, y) == IF isnan(x) \/ isnan(y) THEN NaN
              ELSE Rat(x[1] * y[1], x[2] * y[2])

RDiv(x, y) == IF isnan(x) \/ isnan(y) THEN NaN
              ELSE Rat(x[1] * y[2], x[2] * y[1])

\* operator< on doubles: false as soon as one side is NaN
RLess(x, y) == ~isnan(x) /\ ~isnan(y) /\ x[1] * y[2] < y[1] * x[2]

RLeq(x, y) == ~isnan(x) /\ ~isnan(y) /\ x[1] * y[2] <= y[1] * x[2]

----------------------------------------------------------------------------
(* unsigned int *)

\* 2^32 - 1 in two's complement
UINT_MAX == -1

\* operator< on unsigned int
ULess(a, b) == IF (a >= 0) = (b >= 0) THEN a < b ELSE a >= 0

----------------------------------------------------------------------------
(* enumerations *)

KnotSpacing == {"AS_SAMPLED", "EQUIDISTANT", "EXPERIMENTAL"}

Smoothing == {"NONE", "IDENTITY", "PSPLINE"}

----------------------------------------------------------------------------
(* sample tables *)

\* a table of m samples over d variables: x[i] is the column of axis i
Table(d, m, x) == [numVariables |-> d, numSamples |-> m, x |-> x]

\* an empty DataTable has no samples and no variables
EmptyTable == Table(0, 0, <<>>)

\* one axis holding the n distinct values 0, 1, 4, ..., (n-1)^2, sampled in
\* descending order and with 0 sampled twice
SquaresTable(n) ==
    Table(1, n + 1,
          <<[i \in 1..(n + 1) |-> IF i = n + 1 THEN Dbl(0) ELSE Dbl((n - i) * (n - i))]>>)

\* scenario S1 of the specification: x in {0, 1, 2, 3, 4}
S1Table == Table(1, 5, <<[i \in 1..5 |-> Dbl(i - 1)]>>)

\* the 2 x 3 grid {0, 1} x {0, 2, 3}
GridTable ==
    Table(2, 6, << <<Dbl(0), Dbl(0), Dbl(0), Dbl(1), Dbl(1), Dbl(1)>>,
                   <<Dbl(0), Dbl(2), Dbl(3), Dbl(0), Dbl(2), Dbl(3)>> >>)

\* DataTable::addSample on the caller's table: one more sample of d values; the
\* first sample of an empty table fixes d
addSample(x) ==
    /\ store.numSamples < MaxSamples
    /\ store.numVariables = Len(x) \/ store.numSamples = 0
    /\ store' = Table(Len(x), store.numSamples + 1,
                      [i \in 1..Len(x) |->
                          Append(IF store.numSamples = 0 THEN <<>> ELSE store.x[i], x[i])])
    /\ UNCHANGED <<eigen, _data, _degrees, _numBasisFunctions, _knotSpacing, _smoothing,
                   _alpha, _padding, _weights, _bounds, _hfsIters, call>>

getNumVariables == _data.numVariables

getNumSamples == _data.numSamples

getTableX == _data.x

----------------------------------------------------------------------------
(* construction *)

Fill(n, v) == [i \in 1..n |-> v]

\* getBSplineDegrees throws for degree > 5; otherwise numVariables copies
getBSplineDegreesThrows(degree) == ULess(5, degree)

getBSplineDegrees(numVariables, degree) == Fill(numVariables, degree)

\* a constructor that starts every axis at degree 0 with smoothing IDENTITY
ConstructedOtherDefaults(data) ==
    /\ _data = data
    /\ _degrees = getBSplineDegrees(data.numVariables, 0)
    /\ _numBasisFunctions = Fill(data.numVariables, 0)
    /\ _knotSpacing = "AS_SAMPLED"
    /\ _smoothing = "IDENTITY"
    /\ _alpha = Rat(1, 10)
    /\ _padding = Dbl(0)
    /\ _weights = <<>>
    /\ _bounds = <<>>
    /\ _hfsIters = 0
    /\ call = [op |-> "Builder", arg |-> <<>>, status |-> "ok"]

Constructed(data) ==
    /\ _data = data
    /\ _degrees = getBSplineDegrees(data.numVariables, 3)
    /\ _numBasisFunctions = Fill(data.numVariables, 0)
    /\ _knotSpacing = "AS_SAMPLED"
    /\ _smoothing = "NONE"
    /\ _alpha = Rat(1, 10)
    /\ _padding = Dbl(0)
    /\ _weights = <<>>
    /\ _bounds = <<>>
    /\ _hfsIters = 0
    /\ call = [op |-> "Builder", arg |-> <<>>, status |-> "ok"]

----------------------------------------------------------------------------
(* setters *)

Returned(op, arg) == [op |-> op, arg |-> arg, status |-> "ok"]

Thrown(op, arg) == [op |-> op, arg |-> arg, status |-> "Exception"]

alpha(a) ==
    IF RLess(a, Dbl(0))
    THEN /\ call' = Thrown("alpha", a)
         /\ UNCHANGED <<outside, _data, fields>>
    ELSE /\ _alpha' = a
         /\ call' = Returned("alpha", a)
         /\ UNCHANGED <<outside, _data, _degrees, _numBasisFunctions, _knotSpacing, _smoothing,
                        _padding, _weights, _bounds, _hfsIters>>

degree(p) ==
    IF getBSplineDegreesThrows(p)
    THEN /\ call' = Thrown("degree", p)
         /\ UNCHANGED <<outside, _data, fields>>
    ELSE /\ _degrees' = getBSplineDegrees(getNumVariables, p)
         /\ call' = Returned("degree", p)
         /\ UNCHANGED <<outside, _data, _numBasisFunctions, _knotSpacing, _smoothing, _alpha,
                        _padding, _weights, _bounds, _hfsIters>>

degrees(v) ==
    IF Len(v) # getNumVariables
    THEN /\ call' = Thrown("degrees", v)
         /\ UNCHANGED <<outside, _data, fields>>
    ELSE /\ _degrees' = v
         /\ call' = Returned("degrees", v)
         /\ UNCHANGED <<outside, _data, _numBasisFunctions, _knotSpacing, _smoothing, _alpha,
                        _padding, _weights, _bounds, _hfsIters>>

numBasisFunctions(nb) ==
    /\ _numBasisFunctions' = Fill(getNumVariables, nb)
    /\ call' = Returned("numBasisFunctions", nb)
    /\ UNCHANGED <<outside, _data, _degrees, _knotSpacing, _smoothing, _alpha,
                   _padding, _weights, _bounds, _hfsIters>>

numBasisFunctionsVec(v) ==
    IF Len(v) # getNumVariables
    THEN /\ call' = Thrown("numBasisFunctionsVec", v)
         /\ UNCHANGED <<outside, _data, fields>>
    ELSE /\ _numBasisFunctions' = v
         /\ call' = Returned("numBasisFunctionsVec", v)
         /\ UNCHANGED <<outside, _data, _degrees, _knotSpacing, _smoothing, _alpha,
                        _padding, _weights, _bounds, _hfsIters>>

knotSpacing(ks) ==
    /\ _knotSpacing' = ks
    /\ call' = Returned("knotSpacing", ks)
    /\ UNCHANGED <<outside, _data, _degrees, _numBasisFunctions, _smoothing, _alpha,
                   _padding, _weights, _bounds, _hfsIters>>

smoothing(sm) ==
    /\ _smoothing' = sm
    /\ call' = Returned("smoothing", sm)
    /\ UNCHANGED <<outside, _data, _degrees, _numBasisFunctions, _knotSpacing, _alpha,
                   _padding, _weights, _bounds, _hfsIters>>

\* padding storing its argument before validating it
paddingStoresFirst(pd) ==
    /\ _padding' = pd
    /\ call' = IF RLess(pd, Dbl(0)) THEN Thrown("padding", pd) ELSE Returned("padding", pd)
    /\ UNCHANGED <<outside, _data, _degrees, _numBasisFunctions, _knotSpacing, _smoothing,
                   _alpha, _weights, _bounds, _hfsIters>>

padding(pd) ==
    IF RLess(pd, Dbl(0))
    THEN /\ call' = Thrown("padding", pd)
         /\ UNCHANGED <<outside, _data, fields>>
    ELSE /\ _padding' = pd
         /\ call' = Returned("padding", pd)
         /\ UNCHANGED <<outside, _data, _degrees, _numBasisFunctions, _knotSpacing, _smoothing,
                        _alpha, _weights, _bounds, _hfsIters>>

\* weights measured against the caller's table instead of the captured copy
weightsAgainstStore(wv) ==
    IF Len(wv) # store.numSamples
    THEN /\ call' = Thrown("weights", wv)
         /\ UNCHANGED <<outside, _data, fields>>
    ELSE /\ _weights' = wv
         /\ call' = Returned("weights", wv)
         /\ UNCHANGED <<outside, _data, _degrees, _numBasisFunctions, _knotSpacing, _smoothing,
                        _alpha, _padding, _bounds, _hfsIters>>

weights(wv) ==
    IF Len(wv) # getNumSamples
    THEN /\ call' = Thrown("weights", wv)
         /\ UNCHANGED <<outside, _data, fields>>
    ELSE /\ _weights' = wv
         /\ call' = Returned("weights", wv)
         /\ UNCHANGED <<outside, _data, _degrees, _numBasisFunctions, _knotSpacing, _smoothing,
                        _alpha, _padding, _bounds, _hfsIters>>

bounds(bv) ==
    IF Len(bv) # 0 /\ Len(bv) # getNumVariables
    THEN /\ call' = Thrown("bounds", bv)
         /\ UNCHANGED <<outside, _data, fields>>
    ELSE /\ _bounds' = bv
         /\ call' = Returned("bounds", bv)
         /\ UNCHANGED <<outside, _data, _degrees, _numBasisFunctions, _knotSpacing, _smoothing,
                        _alpha, _padding, _weights, _hfsIters>>

hfsIters(it) ==
    /\ _hfsIters' = it
    /\ call' = Returned("hfsIters", it)
    /\ UNCHANGED <<outside, _data, _degrees, _numBasisFunctions, _knotSpacing, _smoothing,
                   _alpha, _padding, _weights, _bounds>>

----------------------------------------------------------------------------
(* outcomes of the knot-vector functions *)

Knots(seq) == [status |-> "ok", knots |-> seq]

\* SPLINTER::Exception
Throw == [status |-> "Exception", knots |-> <<>>]

\* std::out_of_range raised by std::vector::at
OutOfRange == [status |-> "out_of_range", knots |-> <<>>]

\* an allocation or insertion count of 2^31 or more elements does not complete
BadAlloc == [status |-> "bad_alloc", knots |-> <<>>]

Huge(count) == count < 0

front(v) == v[1]

back(v) == v[Len(v)]

\* v.at(i) for a C++ index i that is in range
at(v, i) == v[i + 1]

InRange(v, i) == i >= 0 /\ i < Len(v)

\* sum of v.at(from), ..., v.at(from + count - 1)
RECURSIVE SumAt(_, _, _)
SumAt(v, from, count) ==
    IF count <= 0 THEN Dbl(0)
    ELSE RAdd(SumAt(v, from, count - 1), at(v, from + count - 1))

----------------------------------------------------------------------------
(* extractUniqueSorted: std::sort, then unique_copy drops equal neighbours *)

RECURSIVE unique_copy(_)
unique_copy(s) ==
    IF Len(s) <= 1 THEN s
    ELSE IF s[1] = s[2] THEN unique_copy(Tail(s))
         ELSE <<s[1]>> \o unique_copy(Tail(s))

extractUniqueSorted(values) == unique_copy(SortSeq(values, RLess))

----------------------------------------------------------------------------
(* linspace(start, stop, num): num equidistant values, both ends included   *)
(* when num >= 2                                                            *)

linspace(start, stop, num) ==
    LET dx == IF num > 1 THEN RDiv(RSub(stop, start), Dbl(num - 1)) ELSE Dbl(0)
    IN  [i \in 1..num |-> RAdd(start, RMul(Dbl(i - 1), dx))]

----------------------------------------------------------------------------
(* AS_SAMPLED *)

\* knotVectorMovingAverage with a window of k + 2 instead of k + 3 values
knotVectorMovingAverageShortWindow(values, deg) ==
    LET unique == extractUniqueSorted(values)
        n == Len(unique)
        k == deg - 1
        w == k + 2
        numInt == n - k - 2
    IN  IF ULess(n, deg + 1) THEN Throw
        ELSE IF Huge(numInt) \/ Huge(deg + 1) THEN BadAlloc
        ELSE Knots(Fill(deg + 1, front(unique))
                   \o [i \in 1..numInt |->
                         IF w = 0 THEN Dbl(0) ELSE RDiv(SumAt(unique, i - 1, w), Dbl(w))]
                   \o Fill(deg + 1, back(unique)))

\* the moving average with the accumulator ma declared outside the loop over
\* the interior knots, so that each window adds to the sum of the ones before
knotVectorMovingAverageKeepsSum(values, deg) ==
    LET unique == extractUniqueSorted(values)
        n == Len(unique)
        k == deg - 1
        w == k + 3
        numInt == n - k - 2
        ma[i \in 0..numInt] ==
            IF i = 0 THEN Dbl(0) ELSE RAdd(ma[i - 1], SumAt(unique, i - 1, w))
    IN  IF ULess(n, deg + 1) THEN Throw
        ELSE IF Huge(numInt) \/ Huge(deg + 1) THEN BadAlloc
        ELSE IF \E i \in 0..(numInt - 1) : \E j \in 0..(w - 1) : ~InRange(unique, i + j)
             THEN OutOfRange
        ELSE Knots(Fill(deg + 1, front(unique))
                   \o [i \in 1..numInt |-> RDiv(ma[i], Dbl(w))]
                   \o Fill(deg + 1, back(unique)))

knotVectorMovingAverage(values, deg) ==
    LET unique == extractUniqueSorted(values)
        n == Len(unique)
        k == deg - 1
        w == k + 3
        numInt == n - k - 2
    IN  IF ULess(n, deg + 1) THEN Throw
        ELSE IF Huge(numInt) \/ Huge(deg + 1) THEN BadAlloc
        ELSE IF \E i \in 0..(numInt - 1) : \E j \in 0..(w - 1) : ~InRange(unique, i + j)
             THEN OutOfRange
        ELSE Knots(Fill(deg + 1, front(unique))
                   \o [i \in 1..numInt |-> RDiv(SumAt(unique, i - 1, w), Dbl(w))]
                   \o Fill(deg + 1, back(unique)))

----------------------------------------------------------------------------
(* EQUIDISTANT *)

\* knotVectorEquidistant moving hi inwards by the padding
knotVectorEquidistantPadInwards(values, deg, nBasis, bnd) ==
    LET unique == extractUniqueSorted(values)
        n == IF ULess(0, nBasis) THEN nBasis ELSE Len(unique)
        k == deg - 1
        lo0 == IF isnan(bnd[1]) THEN front(unique) ELSE bnd[1]
        hi0 == IF isnan(bnd[2]) THEN back(unique) ELSE bnd[2]
        pad == RMul(RSub(hi0, lo0), _padding)
        lo == RSub(lo0, pad)
        hi == RSub(hi0, pad)
        numIntKnots == n - k - 2
    IN  IF ULess(n, deg + 1) THEN Throw
        ELSE IF Huge(numIntKnots) \/ Huge(deg) THEN BadAlloc
        ELSE Knots(Fill(deg, lo) \o linspace(lo, hi, numIntKnots) \o Fill(deg, hi))

knotVectorEquidistant(values, deg, nBasis, bnd) ==
    LET unique == extractUniqueSorted(values)
        n == IF ULess(0, nBasis) THEN nBasis ELSE Len(unique)
        k == deg - 1
        lo0 == IF isnan(bnd[1]) THEN front(unique) ELSE bnd[1]
        hi0 == IF isnan(bnd[2]) THEN back(unique) ELSE bnd[2]
        pad == RMul(RSub(hi0, lo0), _padding)
        lo == RSub(lo0, pad)
        hi == RAdd(hi0, pad)
        \* std::max of two unsigned values, the second being 0
        numIntKnots == n - k - 2
    IN  IF ULess(n, deg + 1) THEN Throw
        ELSE IF Huge(numIntKnots) \/ Huge(deg) THEN BadAlloc
        ELSE Knots(Fill(deg, lo) \o linspace(lo, hi, numIntKnots) \o Fill(deg, hi))

----------------------------------------------------------------------------
(* EXPERIMENTAL *)

\* default argument of knotVectorBuckets
maxSegments == 10

\* windows(ni, w) with the first res windows enlarged by one
Windows(ni, w, res) == [i \in 1..ni |-> IF i <= res THEN w + 1 ELSE w]

\* index of the first value of window i (C++ index i, 0-based)
RECURSIVE WindowStart(_, _)
WindowStart(windows, i) ==
    IF i = 0 THEN 0 ELSE WindowStart(windows, i - 1) + at(windows, i - 1)

knotVectorBuckets(values, deg) ==
    LET unique == extractUniqueSorted(values)
        n == Len(unique)
        ni0 == n - deg - 1
        ns0 == ni0 + deg + 1
        limit == ULess(maxSegments, ns0) /\ ~ULess(maxSegments, deg + 1)
        ns == IF limit THEN maxSegments ELSE ns0
        ni == IF limit THEN ns - deg - 1 ELSE ni0
        \* unique.size() - deg - 1 is computed in size_t: it is n - deg - 1
        \* when deg <= n - 1 and otherwise exceeds every unsigned int
        invalid == deg >= 0 /\ deg <= n - 1 /\ ULess(n - deg - 1, ni)
        w == IF ULess(0, ni) THEN (IF Huge(ni) THEN 0 ELSE n \div ni) ELSE 0
        res == n - w * ni
        windows == Windows(ni, w, res)
    IN  IF ULess(n, deg + 1) THEN Throw
        ELSE IF invalid THEN Throw
        ELSE IF Huge(ni) THEN BadAlloc
        \* windows.at(i) += 1 for i < res
        ELSE IF ULess(ni, res) THEN OutOfRange
        ELSE IF \E i \in 0..(ni - 1) : \E j \in 0..(at(windows, i) - 1) :
                    ~InRange(unique, WindowStart(windows, i) + j)
             THEN OutOfRange
        ELSE IF Huge(deg + 1) THEN BadAlloc
        ELSE Knots(Fill(deg + 1, front(unique))
                   \o [i \in 1..ni |-> RDiv(SumAt(unique, WindowStart(windows, i - 1),
                                                  at(windows, i - 1)),
                                            Dbl(at(windows, i - 1)))]
                   \o Fill(deg + 1, back(unique)))

----------------------------------------------------------------------------
(* computeKnotVector, computeKnotVectors *)

computeKnotVector(values, deg, nBasis, bnd) ==
    CASE _knotSpacing = "AS_SAMPLED" -> knotVectorMovingAverage(values, deg)
      [] _knotSpacing = "EQUIDISTANT" -> knotVectorEquidistant(values, deg, nBasis, bnd)
      [] _knotSpacing = "EXPERIMENTAL" -> knotVectorBuckets(values, deg)
      [] OTHER -> knotVectorMovingAverage(values, deg)

\* the bounds handed to computeKnotVector for axis i (C++ index i - 1)
AxisBounds(i) == IF Len(_bounds) > 0 THEN _bounds[i] ELSE <<NaN, NaN>>

AxisKnots(i) ==
    computeKnotVector(getTableX[i], _degrees[i], _numBasisFunctions[i], AxisBounds(i))

\* the axes are computed in order; the first one that throws ends the call
computeKnotVectors ==
    LET d == getNumVariables
        failed == {i \in 1..d : AxisKnots(i).status # "ok"}
        first == CHOOSE i \in failed : \A j \in failed : i <= j
    IN  IF d # Len(_degrees)
        THEN [status |-> "Exception", knotVectors |-> <<>>]
        ELSE IF failed # {}
        THEN [status |-> AxisKnots(first).status, knotVectors |-> <<>>]
        ELSE [status |-> "ok", knotVectors |-> [i \in 1..d |-> AxisKnots(i).knots]]

----------------------------------------------------------------------------
(* build *)

\* the library is compiled without SPLINTER_ALLOW_SCATTER unless asked to
SPLINTER_ALLOW_SCATTER == FALSE

\* the samples form the full Cartesian product of the distinct values per axis
isGridComplete ==
    LET d == getNumVariables
        m == getNumSamples
        points == {[a \in 1..d |-> getTableX[a][i]] : i \in 1..m}
        distinct(a) == Cardinality({getTableX[a][i] : i \in 1..m})
        Prod[a \in 0..d] == IF a = 0 THEN 1 ELSE distinct(a) * Prod[a - 1]
    IN  Cardinality(points) = Prod[d]

\* number of basis functions of the skeletal spline on axis i
numBasisOnAxis(knotVectors, i) == Len(knotVectors[i]) - _degrees[i] - 1

\* std::vector<unsigned int> of the skeletal spline's basis counts
getNumBasisFunctionsPerVariable(knotVectors) ==
    [i \in 1..Len(knotVectors) |-> numBasisOnAxis(knotVectors, i)]

RECURSIVE Product(_)
Product(s) == IF Len(s) = 0 THEN 1 ELSE s[1] * Product(Tail(s))

RECURSIVE Sum(_)
Sum(s) == IF Len(s) = 0 THEN 0 ELSE s[1] + Sum(Tail(s))

\* std::reverse
reverse(s) == [i \in 1..Len(s) |-> s[Len(s) + 1 - i]]

DThrown == [status |-> "Exception"]

\* the rows of block d with the case of the first dimension taken for every
\* dimension: k = j*leftProd*dims[d] + l, and no loop over n
BlockRowsFirstDimensionCase(dims, d) ==
    LET leftProd == Product(SubSeq(dims, 1, d - 1))
        rightProd == Product(SubSeq(dims, d + 1, Len(dims)))
        perBlock == dims[d] - 2
    IN  [r \in 1..(rightProd * perBlock) |->
            LET j == (r - 1) \div perBlock
                l == (r - 1) % perBlock
                k == j * leftProd * dims[d] + l
            IN  << <<k, 1>>, <<k + leftProd, -2>>, <<k + 2 * leftProd, 1>> >>]

\* the rows the loop over block d (dims[d - 1] in the source) inserts, in the
\* order of the row index i: for each j < rightProd, l < dims[d] - 2 and
\* n < leftProd the entries 1, -2, 1 at columns k, k + leftProd, k + 2*leftProd,
\* with k = j*leftProd*dims[d] + l*leftProd + n
BlockRows(dims, d) ==
    LET leftProd == Product(SubSeq(dims, 1, d - 1))
        rightProd == Product(SubSeq(dims, d + 1, Len(dims)))
        perBlock == (dims[d] - 2) * leftProd
    IN  [r \in 1..(rightProd * perBlock) |->
            LET j == (r - 1) \div perBlock
                l == ((r - 1) % perBlock) \div leftProd
                n == (r - 1) % leftProd
                k == j * leftProd * dims[d] + l * leftProd + n
            IN  << <<k, 1>>, <<k + leftProd, -2>>, <<k + 2 * leftProd, 1>> >>]

\* the rows of all blocks, block after block
RECURSIVE RowsUpTo(_, _)
RowsUpTo(dims, d) == IF d = 0 THEN <<>> ELSE RowsUpTo(dims, d - 1) \o BlockRows(dims, d)

\* D as declared and as filled for the per-axis counts in dims: rows[i + 1] holds
\* the entries inserted into row i, and i is the row index after the last insert
SizedAndFilled(numBasis, dims) ==
    LET numVariables == Len(numBasis)
        prod(i) == Product([j \in 1..numVariables |->
                               IF i = j THEN dims[j] - 2 ELSE dims[j]])
        numBlkRows == [i \in 1..numVariables |-> prod(i)]
        rows == RowsUpTo(dims, numVariables)
    IN  [status |-> "ok", numRows |-> Sum(numBlkRows),
         numCols |-> Product(numBasis), numBlkRows |-> numBlkRows,
         rows |-> rows, i |-> Len(rows)]

\* a difference matrix sized without looking at the basis counts first
getSecondOrderFiniteDifferenceMatrixUnchecked(numBasis) ==
    SizedAndFilled(numBasis, reverse(numBasis))

\* a difference matrix whose dims are the basis counts in the order given
getSecondOrderFiniteDifferenceMatrixForward(numBasis) ==
    IF \E i \in 1..Len(numBasis) : ULess(numBasis[i], 3)
    THEN DThrown
    ELSE SizedAndFilled(numBasis, numBasis)

\* D: it throws on a basis count below three before any dims[j] - 2, an unsigned
\* subtraction, is evaluated
getSecondOrderFiniteDifferenceMatrix(numBasis) ==
    IF \E i \in 1..Len(numBasis) : ULess(numBasis[i], 3)
    THEN DThrown
    ELSE SizedAndFilled(numBasis, reverse(numBasis))

\* no penalty matrix was asked for
NoD == [status |-> "none"]

\* a run of the linear-algebra library: whether its solvers succeed, and the
\* numbers its products come to inside the HFS loop
Library(dense) ==
    [denseQR |-> dense, sparseLU |-> TRUE,
     trace |-> Dbl(2), penalty |-> Dbl(2), residual |-> Dbl(1)]

\* the diagonal of W: ones when no weights were given, the weights otherwise
getWeightMatrix ==
    IF Len(_weights) = 0
    THEN [i \in 1..getNumSamples |-> Dbl(1)]
    ELSE [i \in 1..getNumSamples |-> _weights[i]]

\* A = BtWB + l*D.transpose()*D over n coefficients, kept in the form it is
\* assembled in: B, W and D are those of the knot vectors, table and weights
PSplineA(l, n) == [form |-> "BtWB + l*DtD", l |-> l, rows |-> n, W |-> getWeightMatrix]

\* what Eigen computes from A in one HFS iteration, as the run's library answers:
\* G.trace(), (D * x).squaredNorm() and (y - (B * x)).squaredNorm(), the last one
\* in proportion to the lambda inside A
G_trace(A) == eigen.trace

Dx_squaredNorm(A) == eigen.penalty

residual_squaredNorm(A) == RMul(eigen.residual, A.l)

\* an iteration that updates lambda and leaves A as it was
hfsIterationKeepsA(s) ==
    LET ED == G_trace(s.A)
        tau_squared == RDiv(Dx_squaredNorm(s.A), ED)
        sigma_squared == RDiv(residual_squaredNorm(s.A),
                              RSub(Dbl(getNumSamples - getNumVariables), ED))
        l == RDiv(sigma_squared, tau_squared)
    IN  [l |-> l, A |-> s.A, lambdas |-> Append(s.lambdas, l)]

\* one HFS iteration (method 2): tau^2 = ||D x||^2 / ED,
\* sigma^2 = ||y - B x||^2 / (m - d - ED), l = sigma^2 / tau^2, A rebuilt with l
hfsIteration(s) ==
    LET ED == G_trace(s.A)
        tau_squared == RDiv(Dx_squaredNorm(s.A), ED)
        sigma_squared == RDiv(residual_squaredNorm(s.A),
                              RSub(Dbl(getNumSamples - getNumVariables), ED))
        l == RDiv(sigma_squared, tau_squared)
    IN  [l |-> l, A |-> PSplineA(l, s.A.rows), lambdas |-> Append(s.lambdas, l)]

\* the loop with hfsIter <= _hfsIters as its test
RECURSIVE hfsLoopInclusive(_, _, _)
hfsLoopInclusive(s, hfsIter, iters) ==
    IF ~ULess(iters, hfsIter)
    THEN hfsLoopInclusive(hfsIteration(s), hfsIter + 1, iters)
    ELSE s

\* for (int hfsIter = 0; hfsIter < _hfsIters; hfsIter++)
RECURSIVE hfsLoop(_, _, _)
hfsLoop(s, hfsIter, iters) ==
    IF ULess(hfsIter, iters) THEN hfsLoop(hfsIteration(s), hfsIter + 1, iters) ELSE s

\* the solve with solveAsDense = (numEquations <= maxNumEquations)
solveDenseUpToMax(A) ==
    LET numEquations == A.rows
        maxNumEquations == 100
        sparse == ~(numEquations <= maxNumEquations)
        solveAsDense == IF sparse THEN ~eigen.sparseLU ELSE TRUE
    IN  [solvers |-> (IF sparse THEN <<"SparseLU">> ELSE <<>>)
                       \o (IF solveAsDense THEN <<"DenseQR">> ELSE <<>>),
         x |-> IF solveAsDense THEN "DenseQR.solve(Ad, b, x)"
               ELSE "SparseLU.solve(A, b, x)",
         status |-> IF solveAsDense /\ ~eigen.denseQR THEN "Exception" ELSE "ok"]

\* sparse LU from 100 equations on, dense QR below that or after a sparse failure;
\* x is what the solver called last wrote into it
solve(A) ==
    LET numEquations == A.rows
        maxNumEquations == 100
        sparse == ~(numEquations < maxNumEquations)
        solveAsDense == IF sparse THEN ~eigen.sparseLU ELSE TRUE
    IN  [solvers |-> (IF sparse THEN <<"SparseLU">> ELSE <<>>)
                       \o (IF solveAsDense THEN <<"DenseQR">> ELSE <<>>),
         x |-> IF solveAsDense THEN "DenseQR.solve(Ad, b, x)"
               ELSE "SparseLU.solve(A, b, x)",
         status |-> IF solveAsDense /\ ~eigen.denseQR THEN "Exception" ELSE "ok"]

\* the system assembled for the smoothing chosen, and its solution, for the
\* values a0 of _alpha and iters of _hfsIters
computeCoefficientsWith(knotVectors, a0, iters) ==
    LET numBasis == getNumBasisFunctionsPerVariable(knotVectors)
        n == Product(numBasis)
        D == IF _smoothing = "PSPLINE"
             THEN getSecondOrderFiniteDifferenceMatrix(numBasis)
             ELSE NoD
        hfs == hfsLoop([l |-> a0, A |-> PSplineA(a0, n), lambdas |-> <<a0>>], 0, iters)
        A == CASE _smoothing = "NONE" -> [form |-> "B", rows |-> getNumSamples]
               [] _smoothing = "IDENTITY" ->
                    [form |-> "BtB + alpha*I", alpha |-> a0, rows |-> n]
               [] _smoothing = "PSPLINE" -> hfs.A
        b == CASE _smoothing = "NONE" -> "y"
               [] _smoothing = "IDENTITY" -> "Bt*y"
               [] _smoothing = "PSPLINE" -> "Bt*W*y"
        x == solve(A)
    IN  IF D.status = "Exception"
        THEN [status |-> "Exception", what |-> "Need at least three coefficients",
              D |-> D, lambdas |-> <<>>, system |-> <<>>, solvers |-> <<>>, x |-> "none"]
        ELSE [status |-> x.status,
              what |-> IF x.status = "ok" THEN "" ELSE "Failed to solve",
              D |-> D,
              lambdas |-> IF _smoothing = "PSPLINE" THEN hfs.lambdas ELSE <<>>,
              system |-> [A |-> A, b |-> b],
              solvers |-> x.solvers,
              x |-> IF x.status = "ok" THEN x.x ELSE "none"]

computeCoefficients(knotVectors) == computeCoefficientsWith(knotVectors, _alpha, _hfsIters)

BuildResult(status, stage, knotVectors) ==
    [op |-> "build", arg |-> <<>>, status |-> status, stage |-> stage,
     knotVectors |-> knotVectors, spline |-> (status = "ok")]

\* a build that reached computeCoefficients: the spline carries the solution of
\* the system
CoefficientsResult(knotVectors, c) ==
    [op |-> "build", arg |-> <<>>, status |-> c.status,
     stage |-> IF c.status = "ok" THEN "done" ELSE "coefficients",
     knotVectors |-> knotVectors, spline |-> (c.status = "ok"),
     what |-> c.what, D |-> c.D, lambdas |-> c.lambdas, system |-> c.system,
     solvers |-> c.solvers, x |-> c.x]

buildOutcome ==
    LET kv == computeKnotVectors
    IN  IF ~SPLINTER_ALLOW_SCATTER /\ ~isGridComplete
        THEN BuildResult("Exception", "grid", <<>>)
        ELSE IF kv.status # "ok"
        THEN BuildResult(kv.status, "knots", <<>>)
        ELSE CoefficientsResult(kv.knotVectors, computeCoefficients(kv.knotVectors))

\* a build() that hands its weights over to the weight matrix
buildMovesWeights ==
    /\ call' = buildOutcome
    /\ _weights' = <<>>
    /\ UNCHANGED <<outside, _data, _degrees, _numBasisFunctions, _knotSpacing, _smoothing,
                   _alpha, _padding, _bounds, _hfsIters>>

build ==
    /\ call' = buildOutcome
    /\ UNCHANGED <<outside, _data, fields>>

----------------------------------------------------------------------------
(* C interface: the extern "C" functions around the one Builder of the model *)

\* the pointer splinter_bspline_builder_init returned, and a pointer it never did
Handles == {"bspline_builder_ptr", "nullptr"}

\* get_builder gives the Builder of a pointer it knows; for any other pointer it
\* sets the error string and gives nullptr
get_builder(ptr) == ptr = "bspline_builder_ptr"

\* how a function was left: by its return, or by the exception that went through it
Exit(status) == IF status \in {"ok", "Exception"} THEN "return" ELSE status

NativeCall(op, ptr, arg, exit, result) ==
    [op |-> op, ptr |-> ptr, arg |-> arg, exit |-> exit, result |-> result]

\* get_builder refused the pointer: the error is set and nothing else is done
NoBuilder(op, ptr, arg, result) ==
    /\ error' = TRUE
    /\ native' = NativeCall(op, ptr, arg, "return", result)
    /\ UNCHANGED <<outside, _data, fields, call>>

\* set_error_string called by the function itself
SetErrorString(op, ptr, arg) ==
    /\ error' = TRUE
    /\ native' = NativeCall(op, ptr, arg, "return", "void")
    /\ UNCHANGED <<outside, _data, fields, call>>

\* try { member call } catch (const Exception &e) { set_error_string(e.what()); }
TryCatchException(op, ptr, arg) ==
    /\ error' = (error \/ call'.status = "Exception")
    /\ native' = NativeCall(op, ptr, arg, Exit(call'.status), "void")

splinter_bspline_builder_set_degree(ptr, degs) ==
    IF get_builder(ptr)
    THEN degrees(degs) /\ TryCatchException("set_degree", ptr, degs)
    ELSE NoBuilder("set_degree", ptr, degs, "void")

splinter_bspline_builder_set_num_basis_functions(ptr, nbs) ==
    IF get_builder(ptr)
    THEN numBasisFunctionsVec(nbs) /\ TryCatchException("set_num_basis_functions", ptr, nbs)
    ELSE NoBuilder("set_num_basis_functions", ptr, nbs, "void")

\* a set_knot_spacing whose switch is off by one
set_knot_spacing_shifted(ptr, code) ==
    IF get_builder(ptr)
    THEN CASE code = 1 -> knotSpacing("AS_SAMPLED")
                            /\ TryCatchException("set_knot_spacing", ptr, code)
           [] code = 2 -> knotSpacing("EQUIDISTANT")
                            /\ TryCatchException("set_knot_spacing", ptr, code)
           [] code = 3 -> knotSpacing("EXPERIMENTAL")
                            /\ TryCatchException("set_knot_spacing", ptr, code)
           [] OTHER -> SetErrorString("set_knot_spacing", ptr, code)
    ELSE NoBuilder("set_knot_spacing", ptr, code, "void")

splinter_bspline_builder_set_knot_spacing(ptr, code) ==
    IF get_builder(ptr)
    THEN CASE code = 0 -> knotSpacing("AS_SAMPLED")
                            /\ TryCatchException("set_knot_spacing", ptr, code)
           [] code = 1 -> knotSpacing("EQUIDISTANT")
                            /\ TryCatchException("set_knot_spacing", ptr, code)
           [] code = 2 -> knotSpacing("EXPERIMENTAL")
                            /\ TryCatchException("set_knot_spacing", ptr, code)
           [] OTHER -> SetErrorString("set_knot_spacing", ptr, code)
    ELSE NoBuilder("set_knot_spacing", ptr, code, "void")

splinter_bspline_builder_set_smoothing(ptr, code) ==
    IF get_builder(ptr)
    THEN CASE code = 0 -> smoothing("NONE")
                            /\ TryCatchException("set_smoothing", ptr, code)
           [] code = 1 -> smoothing("IDENTITY")
                            /\ TryCatchException("set_smoothing", ptr, code)
           [] code = 2 -> smoothing("PSPLINE")
                            /\ TryCatchException("set_smoothing", ptr, code)
           [] OTHER -> SetErrorString("set_smoothing", ptr, code)
    ELSE NoBuilder("set_smoothing", ptr, code, "void")

splinter_bspline_builder_set_alpha(ptr, a) ==
    IF get_builder(ptr)
    THEN alpha(a) /\ TryCatchException("set_alpha", ptr, a)
    ELSE NoBuilder("set_alpha", ptr, a, "void")

splinter_bspline_builder_set_padding(ptr, pd) ==
    IF get_builder(ptr)
    THEN padding(pd) /\ TryCatchException("set_padding", ptr, pd)
    ELSE NoBuilder("set_padding", ptr, pd, "void")

splinter_bspline_builder_set_weights(ptr, wv) ==
    IF get_builder(ptr)
    THEN weights(wv) /\ TryCatchException("set_weights", ptr, wv)
    ELSE NoBuilder("set_weights", ptr, wv, "void")

\* bounds[i] = {min_bounds[i], max_bounds[i]} for the n entries given
splinter_bspline_builder_set_bounds(ptr, min_bounds, max_bounds) ==
    IF get_builder(ptr)
    THEN bounds([i \in 1..Len(min_bounds) |-> <<min_bounds[i], max_bounds[i]>>])
           /\ TryCatchException("set_bounds", ptr, <<min_bounds, max_bounds>>)
    ELSE NoBuilder("set_bounds", ptr, <<min_bounds, max_bounds>>, "void")

splinter_bspline_builder_set_hfs_iters(ptr, iters) ==
    IF get_builder(ptr)
    THEN hfsIters(iters) /\ TryCatchException("set_hfs_iters", ptr, iters)
    ELSE NoBuilder("set_hfs_iters", ptr, iters, "void")

\* returns the clone of the spline built, or nullptr after set_error_string; an
\* exception that is not a SPLINTER Exception is not caught here
splinter_bspline_builder_build(ptr) ==
    IF get_builder(ptr)
    THEN /\ build
         /\ error' = (error \/ call'.status = "Exception")
         /\ native' = NativeCall("build", ptr, <<>>, Exit(call'.status),
                                 CASE call'.status = "ok" -> "bspline"
                                   [] call'.status = "Exception" -> "nullptr"
                                   [] OTHER -> "none")
    ELSE NoBuilder("build", ptr, <<>>, "nullptr")

----------------------------------------------------------------------------
(* the Builder under every setter: arguments drawn around the accepted ones *)

Tables == {EmptyTable, GridTable}

\* the dense QR solve succeeds on every system of the run, or fails on every one
Eigens == {Library(ok) : ok \in BOOLEAN}

Init ==
    /\ store \in Tables
    /\ eigen \in Eigens
    /\ Constructed(store)
    /\ Unbound

AlphaInputs == {Dbl(-1), Rat(1, 2), NaN}

PaddingInputs == {Rat(-1, 10), Rat(1, 10)}

DegreeInputs == {5, 6}

\* vectors of d - 1, d and d + 1 entries
Lengths(d) == {n \in {d - 1, d, d + 1} : n >= 0}

DegreesInputs == {Fill(n, p) : n \in Lengths(getNumVariables), p \in {2, 7}}

NumBasisInputs == {4}

NumBasisVecInputs == {Fill(n, 2) : n \in Lengths(getNumVariables)}

WeightsInputs == {Fill(n, Dbl(2)) : n \in Lengths(getNumSamples)}

BoundsInputs == {Fill(n, <<Dbl(-1), Dbl(5)>>) : n \in Lengths(getNumVariables) \cup {0}}

HfsItersInputs == {0, 2}

Next ==
    \/ \E a \in AlphaInputs : alpha(a) /\ UNCHANGED bindings
    \/ \E p \in DegreeInputs : degree(p) /\ UNCHANGED bindings
    \/ \E v \in DegreesInputs : degrees(v) /\ UNCHANGED bindings
    \/ \E nb \in NumBasisInputs : numBasisFunctions(nb) /\ UNCHANGED bindings
    \/ \E v \in NumBasisVecInputs : numBasisFunctionsVec(v) /\ UNCHANGED bindings
    \/ \E ks \in KnotSpacing : knotSpacing(ks) /\ UNCHANGED bindings
    \/ \E sm \in Smoothing : smoothing(sm) /\ UNCHANGED bindings
    \/ \E pd \in PaddingInputs : padding(pd) /\ UNCHANGED bindings
    \/ \E wv \in WeightsInputs : weights(wv) /\ UNCHANGED bindings
    \/ \E bv \in BoundsInputs : bounds(bv) /\ UNCHANGED bindings
    \/ \E it \in HfsItersInputs : hfsIters(it) /\ UNCHANGED bindings
    \/ build /\ UNCHANGED bindings

Spec == Init /\ [][Next]_vars

----------------------------------------------------------------------------
(* the knot strategies: axes of 1 to MaxN distinct values, every degree the  *)
(* setters store, basis counts, bounds and padding                          *)

KnotTables == {SquaresTable(n) : n \in 1..MaxN} \cup {S1Table, GridTable}

InitKnots ==
    /\ store \in KnotTables
    /\ eigen = Library(TRUE)
    /\ Constructed(store)
    /\ Unbound

KnotDegreeInputs == 0..6

KnotDegreesInputs == {Fill(getNumVariables, UINT_MAX), [i \in 1..getNumVariables |-> i]}

KnotNumBasisInputs == {0, 4}

KnotNumBasisVecInputs == {[i \in 1..getNumVariables |-> 5 + i]}

KnotPaddingInputs == {Dbl(0), Rat(1, 10)}

KnotBoundsInputs ==
    {<<>>} \cup {Fill(getNumVariables, b) :
                    b \in {<<Dbl(-1), Dbl(5)>>, <<NaN, Dbl(5)>>, <<Dbl(-1), NaN>>,
                           <<Dbl(5), Dbl(-1)>>}}

NextKnots ==
    \/ \E p \in KnotDegreeInputs : degree(p) /\ UNCHANGED bindings
    \/ \E v \in KnotDegreesInputs : degrees(v) /\ UNCHANGED bindings
    \/ \E nb \in KnotNumBasisInputs : numBasisFunctions(nb) /\ UNCHANGED bindings
    \/ \E v \in KnotNumBasisVecInputs : numBasisFunctionsVec(v) /\ UNCHANGED bindings
    \/ \E ks \in KnotSpacing : knotSpacing(ks) /\ UNCHANGED bindings
    \/ \E pd \in KnotPaddingInputs : padding(pd) /\ UNCHANGED bindings
    \/ \E bv \in KnotBoundsInputs : bounds(bv) /\ UNCHANGED bindings
    \/ build /\ UNCHANGED bindings

SpecKnots == InitKnots /\ [][NextKnots]_vars

----------------------------------------------------------------------------
(* vocabulary of the properties, defined on the sample table itself *)

DistinctValues(i) == {getTableX[i][j] : j \in 1..getNumSamples}

NumDistinct(i) == Cardinality(DistinctValues(i))

\* the r-th smallest distinct value of axis i (r = 0 is the smallest)
U(i, r) == CHOOSE v \in DistinctValues(i) :
               Cardinality({u \in DistinctValues(i) : RLess(u, v)}) = r

\* mean of U(i, r), ..., U(i, r + count - 1)
MeanOfU(i, r, count) ==
    LET S[j \in 0..count] == IF j = 0 THEN Dbl(0) ELSE RAdd(S[j - 1], U(i, r + j - 1))
    IN  RDiv(S[count], Dbl(count))

Axes == 1..getNumVariables

NonDecreasing(s) == \A j \in 1..(Len(s) - 1) : RLeq(s[j], s[j + 1])

Count(s, v) == Cardinality({j \in DOMAIN s : s[j] = v})

\* (p+1)-regular: first and last value each appear exactly p + 1 times
Regular(s, p) ==
    /\ Len(s) > 0
    /\ Count(s, s[1]) = p + 1
    /\ Count(s, s[Len(s)]) = p + 1

\* build() ran and computeKnotVectors returned its vectors
KnotsReturned == call.op = "build" /\ call.stage \notin {"grid", "knots"}

\* build() ran and reached computeKnotVectors
KnotsAttempted == call.op = "build" /\ call.stage # "grid"

SupportedDegrees == \A i \in Axes : _degrees[i] \in 0..5

EnoughDistinct == \A i \in Axes : NumDistinct(i) >= _degrees[i] + 1

----------------------------------------------------------------------------
(* C1 *)

\* C1 as stated: under AS_SAMPLED, for degrees in 0..5 and axes with at least
\* p + 1 distinct values, every knot vector is non-decreasing and its first and
\* last values each appear exactly p + 1 times.
C1_AsSampledRegular ==
    (KnotsAttempted /\ _knotSpacing = "AS_SAMPLED" /\ SupportedDegrees /\ EnoughDistinct)
        => /\ KnotsReturned
           /\ \A i \in Axes : /\ NonDecreasing(call.knotVectors[i])
                              /\ Regular(call.knotVectors[i], _degrees[i])

----------------------------------------------------------------------------
(* C2 *)

\* n of knotVectorEquidistant: numBasisFunctions when > 0, else the distinct count
EquidistantN(i) ==
    IF _numBasisFunctions[i] # 0 THEN _numBasisFunctions[i] ELSE NumDistinct(i)

\* C2 as stated: under EQUIDISTANT, for degrees in 0..5, padding >= 0 and
\* n >= p + 1, every knot vector returned is non-decreasing and its first and last
\* values each appear exactly p + 1 times.
C2_EquidistantRegular ==
    (KnotsReturned /\ _knotSpacing = "EQUIDISTANT" /\ SupportedDegrees
       /\ RLeq(Dbl(0), _padding)
       /\ \A i \in Axes : EquidistantN(i) >= _degrees[i] + 1)
        => \A i \in Axes : /\ NonDecreasing(call.knotVectors[i])
                           /\ Regular(call.knotVectors[i], _degrees[i])

----------------------------------------------------------------------------
(* C3 *)

\* C3 as stated: under EXPERIMENTAL, for degrees in 0..5 and axes with at least
\* p + 1 distinct values, every knot vector returned is non-decreasing and its
\* first and last values each appear exactly p + 1 times.
C3_BucketsRegular ==
    (KnotsReturned /\ _knotSpacing = "EXPERIMENTAL" /\ SupportedDegrees /\ EnoughDistinct)
        => \A i \in Axes : /\ NonDecreasing(call.knotVectors[i])
                           /\ Regular(call.knotVectors[i], _degrees[i])

----------------------------------------------------------------------------
(* C4 *)

\* p + 1 copies of U_0, the n - p - 1 means of p + 2 consecutive distinct values,
\* p + 1 copies of U_{n-1}
MovingAverageKnots(i) ==
    LET n == NumDistinct(i)
        p == _degrees[i]
    IN  [j \in 1..(n + p + 1) |->
            IF j <= p + 1 THEN U(i, 0)
            ELSE IF j > n THEN U(i, n - 1)
            ELSE MeanOfU(i, j - p - 2, p + 2)]

\* C4: under AS_SAMPLED, for degrees in 0..5 (degree 0 included) and n >= p + 1,
\* knot construction returns without an index out of range, and each knot vector
\* has n + p + 1 entries: p + 1 copies of U_0, then the n - p - 1 means of
\* U_i..U_{i+p+1}, then p + 1 copies of U_{n-1}.
C4_AsSampledKnots ==
    (KnotsAttempted /\ _knotSpacing = "AS_SAMPLED" /\ SupportedDegrees /\ EnoughDistinct)
        => /\ call.status # "out_of_range"
           /\ KnotsReturned
           /\ \A i \in Axes : /\ Len(call.knotVectors[i]) = NumDistinct(i) + _degrees[i] + 1
                              /\ call.knotVectors[i] = MovingAverageKnots(i)

\* degree 0, where degree - 1 wraps, over 4 distinct values {0, 1, 4, 9}
C4_Witness ==
    /\ KnotsReturned /\ _knotSpacing = "AS_SAMPLED"
    /\ _degrees = <<0>> /\ NumDistinct(1) = 4
    /\ call.knotVectors[1] = <<Dbl(0), Rat(1, 2), Rat(5, 2), Rat(13, 2), Dbl(9)>>

----------------------------------------------------------------------------
(* C5 *)

\* C5 as stated: under EQUIDISTANT every knot vector returned has n + p + 1
\* entries, n being numBasisFunctions when > 0 and the distinct count otherwise.
C5_EquidistantLength ==
    (KnotsReturned /\ _knotSpacing = "EQUIDISTANT")
        => \A i \in Axes : Len(call.knotVectors[i]) = EquidistantN(i) + _degrees[i] + 1

----------------------------------------------------------------------------
(* C6 *)

\* C6 as stated: under AS_SAMPLED and EXPERIMENTAL, when every axis has exactly
\* p + 1 distinct values, knot construction returns normally and each knot vector
\* is p + 1 copies of U_0 followed by p + 1 copies of U_{n-1}.
C6_ZeroInteriorKnots ==
    (KnotsAttempted /\ _knotSpacing \in {"AS_SAMPLED", "EXPERIMENTAL"}
       /\ \A i \in Axes : NumDistinct(i) = _degrees[i] + 1)
        => /\ KnotsReturned
           /\ \A i \in Axes :
                call.knotVectors[i] = Fill(_degrees[i] + 1, U(i, 0))
                                      \o Fill(_degrees[i] + 1, U(i, NumDistinct(i) - 1))

----------------------------------------------------------------------------
(* C7 *)

\* the axis has fewer than p + 1 values to build on; a stored degree of 2^31 or
\* more (negative in two's complement) exceeds every count
FewerThanDegreePlusOne(i) ==
    LET n == IF _knotSpacing = "EQUIDISTANT" THEN EquidistantN(i) ELSE NumDistinct(i)
    IN  _degrees[i] < 0 \/ n < _degrees[i] + 1

\* C7 as stated: when some axis has fewer than p + 1 distinct values (EQUIDISTANT:
\* n < p + 1), knot construction throws the precondition Exception, no knot vector
\* is produced and build() yields no spline.
C7_TooFewValuesFails ==
    (KnotsAttempted /\ \E i \in Axes : FewerThanDegreePlusOne(i))
        => /\ call.status = "Exception"
           /\ call.stage = "knots"
           /\ call.knotVectors = <<>>
           /\ ~call.spline

----------------------------------------------------------------------------
(* C8 *)

BoundsLo(i) == IF isnan(AxisBounds(i)[1]) THEN U(i, 0) ELSE AxisBounds(i)[1]

BoundsHi(i) ==
    IF isnan(AxisBounds(i)[2]) THEN U(i, NumDistinct(i) - 1) ELSE AxisBounds(i)[2]

\* C8: under EQUIDISTANT with degree >= 1, the first knot of a returned vector is
\* lo - (hi - lo) * padding and the last is hi + (hi - lo) * padding, lo and hi
\* being the bounds slots, a NaN slot replaced by the smallest resp. largest axis
\* value, each slot on its own.
C8_EquidistantEndKnots ==
    (KnotsReturned /\ _knotSpacing = "EQUIDISTANT" /\ \A i \in Axes : _degrees[i] # 0)
        => \A i \in Axes :
              LET width == RSub(BoundsHi(i), BoundsLo(i))
                  kv == call.knotVectors[i]
              IN  /\ Len(kv) >= 2
                  /\ kv[1] = RSub(BoundsLo(i), RMul(width, _padding))
                  /\ kv[Len(kv)] = RAdd(BoundsHi(i), RMul(width, _padding))

\* scenario S6: x in {0..4}, bounds [-1, 5], padding 0.1: end knots -1.6 and 5.6
C8_Witness ==
    /\ KnotsReturned /\ _knotSpacing = "EQUIDISTANT"
    /\ _data = S1Table /\ _degrees = <<3>>
    /\ _bounds = <<<<Dbl(-1), Dbl(5)>>>> /\ _padding = Rat(1, 10)
    /\ call.knotVectors[1][1] = Rat(-8, 5)
    /\ call.knotVectors[1][Len(call.knotVectors[1])] = Rat(28, 5)

\* one slot NaN, the other given: the NaN slot alone falls back to the data
C8_WitnessNaNSlot ==
    /\ KnotsReturned /\ _knotSpacing = "EQUIDISTANT"
    /\ _bounds = <<<<NaN, Dbl(5)>>>> /\ NumDistinct(1) = 6 /\ _degrees = <<3>>
    /\ call.knotVectors[1][1] = Dbl(0)
    /\ call.knotVectors[1][Len(call.knotVectors[1])] = Dbl(5)

----------------------------------------------------------------------------
(* C9 *)

\* the last call was a setter given an argument its validation refuses
InvalidSetterCall ==
    \/ call.op = "alpha" /\ RLess(call.arg, Dbl(0))
    \/ call.op = "padding" /\ RLess(call.arg, Dbl(0))
    \/ call.op = "degrees" /\ Len(call.arg) # getNumVariables
    \/ call.op = "numBasisFunctionsVec" /\ Len(call.arg) # getNumVariables
    \/ call.op = "weights" /\ Len(call.arg) # getNumSamples
    \/ call.op = "bounds" /\ Len(call.arg) \notin {0, getNumVariables}

\* C9: a setter called with an invalid argument throws and leaves every Builder
\* field, the one being set included, and the captured table as they were.
C9_InvalidSetterChangesNothing ==
    [][InvalidSetterCall' => (call'.status = "Exception" /\ fields' = fields
                                /\ _data' = _data)]_vars

\* padding(-0.1) refused after padding(0.1) and bounds had been set
C9_Witness ==
    /\ call.op = "padding" /\ RLess(call.arg, Dbl(0)) /\ call.status = "Exception"
    /\ _padding = Rat(1, 10)
    /\ _bounds # <<>>

----------------------------------------------------------------------------
(* C10 *)

\* C10 as stated: whatever setters are called, every stored degree is in [0, 5].
C10_DegreesAtMostFive == \A i \in DOMAIN _degrees : _degrees[i] \in 0..5

----------------------------------------------------------------------------
(* C11 *)

\* C11 as stated: after construction and after any sequence of setter calls,
\* alpha >= 0, padding >= 0, |degrees| = d, |numBasisFunctions| = d, weights is
\* empty or has m entries, and bounds is empty or has d entries.
C11_FieldInvariants ==
    /\ RLeq(Dbl(0), _alpha)
    /\ RLeq(Dbl(0), _padding)
    /\ Len(_degrees) = getNumVariables
    /\ Len(_numBasisFunctions) = getNumVariables
    /\ Len(_weights) \in {0, getNumSamples}
    /\ Len(_bounds) \in {0, getNumVariables}

----------------------------------------------------------------------------
(* C12 *)

\* C12: a freshly constructed Builder over a table of d variables has degree 3
\* on each of the d axes, numBasisFunctions 0 on each axis, knot spacing
\* AS_SAMPLED, smoothing NONE, alpha 0.1, padding 0, hfsIters 0, no weights and
\* no bounds.
C12_ConstructorDefaults ==
    call.op = "Builder"
        => /\ _degrees = [i \in 1..getNumVariables |-> 3]
           /\ _numBasisFunctions = [i \in 1..getNumVariables |-> 0]
           /\ _knotSpacing = "AS_SAMPLED"
           /\ _smoothing = "NONE"
           /\ _alpha = Rat(1, 10)
           /\ _padding = Dbl(0)
           /\ _hfsIters = 0
           /\ _weights = <<>>
           /\ _bounds = <<>>

\* a Builder just constructed over the two-variable grid
C12_Witness ==
    /\ call.op = "Builder"
    /\ getNumVariables = 2
    /\ Len(_degrees) = 2 /\ Len(_numBasisFunctions) = 2

----------------------------------------------------------------------------
(* C13 *)

\* C13: build() changes no Builder field and no captured sample, whether it
\* succeeds or fails; a build() that directly follows a build() ends as the first
\* did, with the same knot vectors, the same success or the same failure.
C13_BuildIsPure ==
    [][/\ call'.op = "build" => (fields' = fields /\ _data' = _data)
       /\ (call.op = "build" /\ call'.op = "build") => call' = call]_vars

\* a build that failed in the solver on a Builder whose weights, knot spacing and
\* basis counts had been set: the configuration is still there
C13_Witness ==
    /\ call.op = "build" /\ call.status = "Exception" /\ call.stage = "coefficients"
    /\ _knotSpacing = "EQUIDISTANT"
    /\ _weights # <<>>
    /\ _numBasisFunctions = <<4, 4>>

----------------------------------------------------------------------------
(* C14 *)

\* the caller keeps adding samples to the table a Builder was constructed from
StoreTables == {EmptyTable, S1Table, GridTable}

InitStore ==
    /\ store \in StoreTables
    /\ eigen \in Eigens
    /\ Constructed(store)
    /\ Unbound

\* a point off the grid, and a point whose values the table may already hold
SampleInputs ==
    {Fill(IF store.numSamples = 0 THEN 1 ELSE store.numVariables, Dbl(v)) : v \in {2, 7}}

\* vectors sized by the captured table and by the caller's table
StoreLengths(captured, current) == {captured, current}

NextStore ==
    \/ \E x \in SampleInputs : addSample(x) /\ UNCHANGED bindings
    \/ \E n \in StoreLengths(_data.numSamples, store.numSamples) : weights(Fill(n, Dbl(2))) /\ UNCHANGED bindings
    \/ \E n \in StoreLengths(_data.numVariables, store.numVariables) : degrees(Fill(n, 1)) /\ UNCHANGED bindings
    \/ \E n \in StoreLengths(_data.numVariables, store.numVariables) :
          bounds(Fill(n, <<Dbl(-1), Dbl(9)>>)) /\ UNCHANGED bindings
    \/ \E ks \in KnotSpacing : knotSpacing(ks) /\ UNCHANGED bindings
    \/ build /\ UNCHANGED bindings

SpecStore == InitStore /\ [][NextStore]_vars

\* C14: the Builder works on the copy of the table taken at construction: adding
\* samples to the caller's table changes neither the copy nor any field; weights,
\* degrees and bounds are still accepted exactly when sized by the copy's m and d;
\* and a build() after the additions ends as the build() before them did.
C14_SnapshotIsolated ==
    [][/\ store' # store => (_data' = _data /\ fields' = fields)
       /\ call'.op = "weights"
            => (call'.status = "ok" <=> Len(call'.arg) = _data.numSamples)
       /\ call'.op = "degrees"
            => (call'.status = "ok" <=> Len(call'.arg) = _data.numVariables)
       /\ call'.op = "bounds"
            => (call'.status = "ok" <=> Len(call'.arg) \in {0, _data.numVariables})
       /\ (call.op = "build" /\ call'.op = "build") => call' = call]_vars

\* the caller's table has grown by two samples; weights sized by the captured
\* five samples have just been accepted
C14_Witness ==
    /\ _data = S1Table /\ store.numSamples = 7
    /\ call = Returned("weights", Fill(5, Dbl(2)))

----------------------------------------------------------------------------
(* the Builder driven through the C interface *)

CTables == {EmptyTable, S1Table, GridTable}

\* splinter_bspline_builder_init has returned the Builder's pointer
InitC ==
    /\ store \in CTables
    /\ eigen \in Eigens
    /\ Constructed(store)
    /\ error = FALSE
    /\ native = NativeCall("init", "datatable_ptr", <<>>, "return", "bspline_builder_ptr")
    /\ gocall = NoCall
    /\ bs = ZeroBSpline
    /\ dt = nil
    /\ builder = nil

CDegreeInputs == {Fill(getNumVariables, p) : p \in {1, 4}}

CNumBasisInputs == {Fill(getNumVariables, 2)}

\* the codes of the two enumerations and the first code past them
CodeInputs == 0..3

CAlphaInputs == {Dbl(-1)}

CPaddingInputs == {Rat(-1, 10)}

CWeightsInputs == {Fill(getNumSamples + 1, Dbl(2))}

CBoundsInputs == {Fill(getNumVariables + 1, Dbl(0))}

CHfsItersInputs == {0}

NextC ==
    \/ \E ptr \in Handles, v \in CDegreeInputs :
          splinter_bspline_builder_set_degree(ptr, v) /\ UNCHANGED <<gocall, bs, gowrappers>>
    \/ \E ptr \in Handles, v \in CNumBasisInputs :
          splinter_bspline_builder_set_num_basis_functions(ptr, v) /\ UNCHANGED <<gocall, bs, gowrappers>>
    \/ \E ptr \in Handles, code \in CodeInputs :
          splinter_bspline_builder_set_knot_spacing(ptr, code) /\ UNCHANGED <<gocall, bs, gowrappers>>
    \/ \E ptr \in Handles, code \in CodeInputs :
          splinter_bspline_builder_set_smoothing(ptr, code) /\ UNCHANGED <<gocall, bs, gowrappers>>
    \/ \E ptr \in Handles, a \in CAlphaInputs :
          splinter_bspline_builder_set_alpha(ptr, a) /\ UNCHANGED <<gocall, bs, gowrappers>>
    \/ \E ptr \in Handles, pd \in CPaddingInputs :
          splinter_bspline_builder_set_padding(ptr, pd) /\ UNCHANGED <<gocall, bs, gowrappers>>
    \/ \E ptr \in Handles, wv \in CWeightsInputs :
          splinter_bspline_builder_set_weights(ptr, wv) /\ UNCHANGED <<gocall, bs, gowrappers>>
    \/ \E ptr \in Handles, b \in CBoundsInputs :
          splinter_bspline_builder_set_bounds(ptr, b, b) /\ UNCHANGED <<gocall, bs, gowrappers>>
    \/ \E ptr \in Handles, it \in CHfsItersInputs :
          splinter_bspline_builder_set_hfs_iters(ptr, it) /\ UNCHANGED <<gocall, bs, gowrappers>>
    \/ \E ptr \in Handles : splinter_bspline_builder_build(ptr) /\ UNCHANGED <<gocall, bs, gowrappers>>

SpecC == InitC /\ [][NextC]_vars

----------------------------------------------------------------------------
(* C15 *)

\* splinter_bspline_builder_build was called on the Builder's pointer and build()
\* did not produce a spline
NativeBuildFailed ==
    /\ native.op = "build" /\ get_builder(native.ptr)
    /\ call.op = "build" /\ call.status # "ok"

\* C15 as stated: every failure of a build started through
\* splinter_bspline_builder_build sets the error channel and returns a null spline
\* handle; no failure leaves the call by an exception, and no spline is returned.
C15_BuildFailuresReported ==
    NativeBuildFailed => (native.exit = "return" /\ native.result = "nullptr" /\ error)

----------------------------------------------------------------------------
(* C16 *)

KnotSpacingOfCode(code) ==
    CASE code = 0 -> "AS_SAMPLED" [] code = 1 -> "EQUIDISTANT" [] code = 2 -> "EXPERIMENTAL"

SmoothingOfCode(code) ==
    CASE code = 0 -> "NONE" [] code = 1 -> "IDENTITY" [] code = 2 -> "PSPLINE"

\* C16: on the Builder's pointer, set_knot_spacing stores AS_SAMPLED, EQUIDISTANT,
\* EXPERIMENTAL for the codes 0, 1, 2 and set_smoothing stores NONE, IDENTITY,
\* PSPLINE for 0, 1, 2, each leaving the other fields alone; any other code sets
\* the error channel and changes no field; a call on a pointer get_builder refuses
\* changes neither the fields nor the captured table.
C16_EnumCodes ==
    [][/\ (native'.op = "set_knot_spacing" /\ get_builder(native'.ptr))
            => IF native'.arg \in 0..2
               THEN /\ _knotSpacing' = KnotSpacingOfCode(native'.arg)
                    /\ _smoothing' = _smoothing
               ELSE error' /\ fields' = fields
       /\ (native'.op = "set_smoothing" /\ get_builder(native'.ptr))
            => IF native'.arg \in 0..2
               THEN /\ _smoothing' = SmoothingOfCode(native'.arg)
                    /\ _knotSpacing' = _knotSpacing
               ELSE error' /\ fields' = fields
       /\ native'.op \in {"set_knot_spacing", "set_smoothing"}
            => /\ _data' = _data /\ _degrees' = _degrees
               /\ _numBasisFunctions' = _numBasisFunctions
               /\ _alpha' = _alpha /\ _padding' = _padding /\ _weights' = _weights
               /\ _bounds' = _bounds /\ _hfsIters' = _hfsIters
       /\ ~get_builder(native'.ptr) => (fields' = fields /\ _data' = _data)]_vars

\* code 3 refused after code 1 and smoothing code 2 had been stored
C16_Witness ==
    /\ native.op = "set_knot_spacing" /\ native.arg = 3 /\ get_builder(native.ptr)
    /\ error
    /\ _knotSpacing = "EQUIDISTANT" /\ _smoothing = "PSPLINE"

----------------------------------------------------------------------------
(* C17 *)

\* some axis of the skeletal spline has fewer than three basis functions
FewerThanThree ==
    \E i \in Axes : numBasisOnAxis(call.knotVectors, i) < 3

ThreeNeeded == "Need at least three coefficients"

\* C17: when build() reaches the coefficients with smoothing PSPLINE and some axis
\* has fewer than 3 basis functions, it fails with the precondition Exception, D
\* has not been sized (no dims - 2 was evaluated) and there is no spline; whenever
\* D was sized every axis had at least 3 and no block row count wrapped; under
\* NONE and IDENTITY the same knot vectors raise no such error.
C17_PSplineNeedsThree ==
    KnotsReturned
        => /\ (_smoothing = "PSPLINE" /\ FewerThanThree)
                => /\ call.status = "Exception" /\ call.what = ThreeNeeded
                   /\ call.D = DThrown
                   /\ ~call.spline
           /\ call.D.status = "ok"
                => /\ \A i \in Axes : numBasisOnAxis(call.knotVectors, i) >= 3
                   /\ \A i \in Axes : call.D.numBlkRows[i] > 0
           /\ _smoothing \in {"NONE", "IDENTITY"}
                => call.what # ThreeNeeded /\ call.D = NoD

\* the 2 x 3 grid at degree 1: two basis functions on the first axis, PSPLINE
C17_Witness ==
    /\ KnotsReturned /\ _smoothing = "PSPLINE" /\ _data = GridTable
    /\ numBasisOnAxis(call.knotVectors, 1) = 2
    /\ call.status = "Exception" /\ call.what = ThreeNeeded

\* the same knot vectors under IDENTITY: the build goes through
C17_WitnessIdentity ==
    /\ KnotsReturned /\ _smoothing = "IDENTITY" /\ _data = GridTable
    /\ numBasisOnAxis(call.knotVectors, 1) = 2
    /\ call.status = "ok"

----------------------------------------------------------------------------
(* P-spline builds with HFS iterations, the lambda found handed back to alpha() *)

\* libraries whose effective dimension is below or above m - d, and whose
\* penalty norm is positive or zero
HfsLibraries ==
    {[denseQR |-> dense, sparseLU |-> TRUE, trace |-> Dbl(t), penalty |-> Dbl(pen),
      residual |-> Dbl(1)] : dense \in BOOLEAN, t \in {2, 5}, pen \in {0, 2}}

InitHfs ==
    /\ store = S1Table
    /\ eigen \in HfsLibraries
    /\ Constructed(store)
    /\ Unbound

\* the lambda the last build solved with, when it has one of bounded size
LastLambda ==
    IF call.op = "build" /\ call.stage \in {"coefficients", "done"}
       /\ Len(call.lambdas) > 0
    THEN {l \in {call.lambdas[Len(call.lambdas)]} :
             Abs(l[1]) <= MaxLambda /\ l[2] <= MaxLambda}
    ELSE {}

HfsAlphaInputs == {Rat(1, 2)}

HfsIterInputs == 0..2

HfsWeightsInputs == {Fill(getNumSamples, Dbl(2))}

NextHfs ==
    \/ \E a \in HfsAlphaInputs \cup LastLambda : alpha(a) /\ UNCHANGED bindings
    \/ \E it \in HfsIterInputs : hfsIters(it) /\ UNCHANGED bindings
    \/ \E wv \in HfsWeightsInputs : weights(wv) /\ UNCHANGED bindings
    \/ \E sm \in Smoothing : smoothing(sm) /\ UNCHANGED bindings
    \/ build /\ UNCHANGED bindings

SpecHfs == InitHfs /\ [][NextHfs]_vars

----------------------------------------------------------------------------
(* C18 *)

\* build() assembled a P-spline system (D was sized)
PSplineBuilt ==
    /\ call.op = "build" /\ call.stage \in {"coefficients", "done"}
    /\ _smoothing = "PSPLINE" /\ call.D.status = "ok"

\* the lambda after the last HFS update of the build
FinalLambda == call.lambdas[Len(call.lambdas)]

\* C18: a P-spline build with hfsIters = K made K lambda updates and solved
\* A = BtWB + L*DtD, b = BtWy with L the lambda of the K-th update; whenever alpha()
\* accepts L, a build with hfsIters = 0 and alpha = L on the same knot vectors
\* assembles the same system, is solved the same way and ends the same.
C18_HfsFixedPoint ==
    PSplineBuilt
        => /\ Len(call.lambdas) = _hfsIters + 1
           /\ call.system.A.l = FinalLambda
           /\ ~RLess(FinalLambda, Dbl(0))
                => LET again == computeCoefficientsWith(call.knotVectors, FinalLambda, 0)
                   IN  /\ again.system = call.system
                       /\ again.solvers = call.solvers
                       /\ again.status = call.status

\* two updates from alpha = 1/2 gave lambda = 1/8, the system solved
C18_Witness ==
    /\ PSplineBuilt /\ call.status = "ok"
    /\ _hfsIters = 2 /\ _alpha = Rat(1, 2)
    /\ call.lambdas = <<Rat(1, 2), Rat(1, 4), Rat(1, 8)>>
    /\ call.system.A.l = Rat(1, 8)

\* the second build: hfsIters = 0 and alpha = 1/8, the lambda found before
C18_WitnessSecondBuild ==
    /\ PSplineBuilt /\ call.status = "ok"
    /\ _hfsIters = 0 /\ _alpha = Rat(1, 8)
    /\ call.system.A.l = Rat(1, 8)

----------------------------------------------------------------------------
(* knotVectorMovingAverage on an axis and on its image under t -> a*t + b *)

\* the values a*t + b, in the order the values t are given
AffineImage(values, a, b) == [j \in 1..Len(values) |-> RAdd(RMul(a, values[j]), b)]

\* the strategy applied to the first axis of the table and to the image of that axis
knotVectorMovingAverageOfImage(a, b) ==
    /\ call' = [op |-> "knotVectorMovingAverage", arg |-> <<a, b>>,
                status |-> "ok",
                knots |-> knotVectorMovingAverage(getTableX[1], _degrees[1]),
                image |-> knotVectorMovingAverage(AffineImage(getTableX[1], a, b),
                                                  _degrees[1])]
    /\ UNCHANGED <<outside, _data, fields>>

AffineTables == {SquaresTable(n) : n \in 1..6} \cup {S1Table}

InitAffine ==
    /\ store \in AffineTables
    /\ eigen = Library(TRUE)
    /\ Constructed(store)
    /\ Unbound

AffineDegreeInputs == 0..4

ScaleInputs == {Dbl(-2), Dbl(-1), Rat(1, 2), Dbl(3)}

ShiftInputs == {Dbl(0), Dbl(-1), Rat(5, 2)}

NextAffine ==
    \/ \E p \in AffineDegreeInputs : degree(p) /\ UNCHANGED bindings
    \/ \E a \in ScaleInputs, b \in ShiftInputs :
          knotVectorMovingAverageOfImage(a, b) /\ UNCHANGED bindings

SpecAffine == InitAffine /\ [][NextAffine]_vars

----------------------------------------------------------------------------
(* C19 *)

\* the strategy has just been applied to an axis and to its image
ImageTaken == call.op = "knotVectorMovingAverage"

\* s with each value t replaced by a*t + b
MapAffine(s, a, b) == [j \in 1..Len(s) |-> RAdd(RMul(a, s[j]), b)]

Reversed(s) == [j \in 1..Len(s) |-> s[Len(s) + 1 - j]]

\* C19 as stated: for every a # 0, the AS_SAMPLED knot vector of the values
\* a*t + b is the element-wise image under t -> a*t + b of the knot vector of the
\* values t.
C19_AffineImageAnyScale ==
    (ImageTaken /\ call.arg[1] # Dbl(0))
        => /\ call.image.status = call.knots.status
           /\ call.knots.status = "ok"
                => call.image.knots = MapAffine(call.knots.knots, call.arg[1], call.arg[2])

\* C19 amended: for a > 0 the knot vector of the values a*t + b is the
\* element-wise image of the knot vector of the values t; for a < 0, where the
\* order of the values is reversed, it is that image read backwards.  Both throw
\* or both return.
C19_AffineImage ==
    (ImageTaken /\ call.arg[1] # Dbl(0))
        => /\ call.image.status = call.knots.status
           /\ call.knots.status = "ok"
                => LET mapped == MapAffine(call.knots.knots, call.arg[1], call.arg[2])
                   IN  call.image.knots = IF RLess(Dbl(0), call.arg[1])
                                          THEN mapped
                                          ELSE Reversed(mapped)

\* t -> t/2 + 5/2 on {0, 1, 4, 9, 16, 25} at degree 3: two interior knots
C19_Witness ==
    /\ ImageTaken /\ call.arg = <<Rat(1, 2), Rat(5, 2)>>
    /\ NumDistinct(1) = 6 /\ _degrees = <<3>>
    /\ call.knots.status = "ok"
    /\ Len(call.image.knots) = 10
    /\ call.image.knots[5] = RAdd(RMul(Rat(1, 2), call.knots.knots[5]), Rat(5, 2))
    /\ call.image.knots[5] # call.image.knots[6]

----------------------------------------------------------------------------
(* the Go binding: a BSplineBuilder holding the Builder's pointer, and the
   BSpline its Build returns *)

\* what a function of the binding did: the C functions it called, in order, the
\* slice element whose address it took, and the value and error it returned
GoCall(op, arg, calls, addr, result, err) ==
    [op |-> op, arg |-> arg, calls |-> calls, addr |-> addr, result |-> result, err |-> err]

\* getErrorIfExists after a call that left the flag as flag
getErrorIfExists(flag) == IF flag THEN "splinter_get_error_string" ELSE "nil"

\* the spline of a pointer Build returned has the variables of the Builder's
\* table; any other pointer is refused: the flag is set and 0 returned
splinter_bspline_get_num_variables(ptr) == IF ptr = "bspline" THEN getNumVariables ELSE 0

BSplineBuilder_KnotSpacing(ks) ==
    /\ splinter_bspline_builder_set_knot_spacing("bspline_builder_ptr", ks)
    /\ gocall' = GoCall("KnotSpacing", ks,
                        <<"splinter_bspline_builder_set_knot_spacing", "splinter_get_error">>,
                        "none", "none", getErrorIfExists(error'))
    /\ bs' = bs

BSplineBuilder_Smoothing(sm) ==
    /\ splinter_bspline_builder_set_smoothing("bspline_builder_ptr", sm)
    /\ gocall' = GoCall("Smoothing", sm,
                        <<"splinter_bspline_builder_set_smoothing", "splinter_get_error">>,
                        "none", "none", getErrorIfExists(error'))
    /\ bs' = bs

\* splinter_bspline_builder_build on the Builder's pointer, then getErrorIfExists;
\* a pointer returned together with an error is deleted, and deleting it succeeds
Build ==
    /\ build
    /\ LET thrown == call'.status = "Exception"
           flag == error \/ thrown
           ptr == IF thrown THEN "nullptr" ELSE "bspline"
           built == NativeCall("build", "bspline_builder_ptr", <<>>, Exit(call'.status), ptr)
       IN  IF Exit(call'.status) # "return"
           THEN /\ error' = error
                /\ native' = [built EXCEPT !.result = "none"]
                /\ gocall' = GoCall("Build", <<>>, <<"splinter_bspline_builder_build">>,
                                    "none", "none", Exit(call'.status))
                /\ bs' = bs
           ELSE IF flag
           THEN /\ error' = (ptr = "nullptr")
                /\ native' = IF ptr = "nullptr" THEN built
                             ELSE NativeCall("bspline_delete", ptr, <<>>, "return", "void")
                /\ gocall' = GoCall("Build", <<>>,
                                    <<"splinter_bspline_builder_build", "splinter_get_error">>
                                        \o (IF ptr = "nullptr" THEN <<>>
                                            ELSE <<"splinter_bspline_delete">>),
                                    "none", "nil", getErrorIfExists(flag))
                /\ bs' = bs
           ELSE /\ error' = FALSE
                /\ native' = built
                /\ gocall' = GoCall("Build", <<>>,
                                    <<"splinter_bspline_builder_build", "splinter_get_error">>,
                                    "none", "BSpline", "nil")
                /\ bs' = [ptr |-> ptr]

\* BSpline.Free: the spline is deleted and the object's ptr set to nil
Free ==
    /\ error' = (bs.ptr = "nullptr")
    /\ native' = NativeCall("bspline_delete", bs.ptr, <<>>, "return", "void")
    /\ gocall' = GoCall("Free", <<>>, <<"splinter_bspline_delete">>, "none", "none", "none")
    /\ bs' = ZeroBSpline
    /\ UNCHANGED <<outside, _data, fields, call>>

\* splinter_bspline_get_num_variables(bs.ptr), as every Eval begins
NumVariablesCall ==
    NativeCall("bspline_get_num_variables", bs.ptr, <<>>, "return",
               splinter_bspline_get_num_variables(bs.ptr))

\* Eval returns 0 and err after the call of splinter_bspline_get_num_variables
EvalRefused(vals, err) ==
    /\ error' = (bs.ptr # "bspline")
    /\ native' = NumVariablesCall
    /\ gocall' = GoCall("Eval", vals, <<"splinter_bspline_get_num_variables">>,
                        "none", Dbl(0), err)
    /\ UNCHANGED <<outside, _data, fields, call, bs>>

\* &vals[0] and splinter_bspline_eval_row_major: indexing an empty slice panics;
\* the spline is evaluated at vals when the pointer is one Build returned and
\* vals has its number of variables, and the call is refused otherwise
EvalNative(vals) ==
    IF vals = <<>>
    THEN /\ error' = (bs.ptr # "bspline")
         /\ native' = NumVariablesCall
         /\ gocall' = GoCall("Eval", vals, <<"splinter_bspline_get_num_variables">>,
                             "panic", "none", "index out of range")
         /\ UNCHANGED <<outside, _data, fields, call, bs>>
    ELSE LET evaluated == bs.ptr = "bspline" /\ Len(vals) = getNumVariables
             arr == IF evaluated THEN [eval |-> vals] ELSE "nullptr"
         IN  /\ error' = ~evaluated
             /\ native' = NativeCall("bspline_eval_row_major", bs.ptr, vals, "return", arr)
             /\ gocall' = GoCall("Eval", vals,
                                 <<"splinter_bspline_get_num_variables",
                                   "splinter_bspline_eval_row_major",
                                   "splinter_get_error", "free">>,
                                 "vals[0]",
                                 IF evaluated THEN arr ELSE Dbl(0),
                                 getErrorIfExists(~evaluated))
             /\ UNCHANGED <<outside, _data, fields, call, bs>>

\* Eval without the test of n == 0
EvalUnchecked(vals) ==
    LET n == splinter_bspline_get_num_variables(bs.ptr)
    IN  IF Len(vals) # n THEN EvalRefused(vals, "ErrDimensionMismatch")
        ELSE EvalNative(vals)

Eval(vals) ==
    LET n == splinter_bspline_get_num_variables(bs.ptr)
    IN  IF n = 0 THEN EvalRefused(vals, "ErrZeroVariables")
        ELSE IF Len(vals) # n THEN EvalRefused(vals, "ErrDimensionMismatch")
        ELSE EvalNative(vals)

GoTables == {EmptyTable, S1Table, GridTable}

\* NewBSplineBuilder has returned the BSplineBuilder; no BSpline is built yet
InitGo ==
    /\ store \in GoTables
    /\ eigen \in Eigens
    /\ Constructed(store)
    /\ error = FALSE
    /\ native = NativeCall("init", "datatable_ptr", <<>>, "return", "bspline_builder_ptr")
    /\ gocall = GoCall("NewBSplineBuilder", "DataTable",
                       <<"splinter_bspline_builder_init", "splinter_get_error">>,
                       "none", "BSplineBuilder", "nil")
    /\ bs = ZeroBSpline
    /\ dt = NewDataTableObject
    /\ builder = NewBSplineBuilderObject

GoCodeInputs == 0..3

MaxVals == 3

ValsInputs == UNION {[1..k -> {Dbl(0), Dbl(1)}] : k \in 0..MaxVals}

NextGo ==
    \/ \E ks \in GoCodeInputs : BSplineBuilder_KnotSpacing(ks) /\ UNCHANGED gowrappers
    \/ \E sm \in GoCodeInputs : BSplineBuilder_Smoothing(sm) /\ UNCHANGED gowrappers
    \/ Build /\ UNCHANGED gowrappers
    \/ Free /\ UNCHANGED gowrappers
    \/ \E vals \in ValsInputs : Eval(vals) /\ UNCHANGED gowrappers

SpecGo == InitGo /\ [][NextGo]_vars

----------------------------------------------------------------------------
(* C20 *)

\* the last call of the binding was Eval on the BSpline the program holds
Evaluated == gocall.op = "Eval"

\* the spline reports 0 variables: there is none behind the object's ptr, or the
\* one there has none
ReportsZero == bs.ptr = "nullptr" \/ _data.numVariables = 0

NativeEvalCalled ==
    \E i \in DOMAIN gocall.calls : gocall.calls[i] = "splinter_bspline_eval_row_major"

\* C20: BSpline.Eval returns ErrZeroVariables when the spline reports 0 variables,
\* and otherwise ErrDimensionMismatch when the number of arguments is not the
\* spline's number of variables; in both cases the native evaluation is not
\* called; and Eval never takes the address of the first element of an empty
\* argument list.
C20_EvalRefusals ==
    Evaluated
        => /\ ReportsZero
                => gocall.err = "ErrZeroVariables" /\ ~NativeEvalCalled
           /\ (~ReportsZero /\ Len(gocall.arg) # _data.numVariables)
                => gocall.err = "ErrDimensionMismatch" /\ ~NativeEvalCalled
           /\ gocall.arg = <<>> => gocall.addr = "none"

\* Eval with two values on the spline built from the one-variable table S1
C20_Witness ==
    /\ Evaluated /\ bs.ptr = "bspline"
    /\ _data.numVariables = 1 /\ Len(gocall.arg) = 2
    /\ gocall.err = "ErrDimensionMismatch"

\* Eval with no value on a BSpline that was freed
C20_WitnessFreed ==
    /\ Evaluated /\ bs.ptr = "nullptr" /\ gocall.arg = <<>>
    /\ gocall.err = "ErrZeroVariables"
    /\ call.op = "build" /\ call.status = "ok"

----------------------------------------------------------------------------
(* the Go binding's constructors and its DataTable *)

\* new_store() of the C interface: a handle of an empty table, the flag cleared
splinter_datatable_init == [ptr |-> "datatable_ptr", flag |-> FALSE]

\* the table that add_samples_col_major leaves: data holds the d columns of x and
\* then the column of y, each of m values; sample i has x_j = data[j*m + i]
add_samples_col_major(table, data, m, d) ==
    Table(d, table.numSamples + m,
          [j \in 1..d |-> (IF table.numSamples = 0 THEN <<>> ELSE table.x[j])
                             \o [i \in 1..m |-> data[(j - 1) * m + i]]])

\* concat = append(concat, col...) over the columns in order
Concat(columns) ==
    LET cat[c \in 0..Len(columns)] == IF c = 0 THEN <<>> ELSE cat[c - 1] \o columns[c]
    IN  cat[Len(columns)]

NewDataTable ==
    LET init == splinter_datatable_init
    IN  /\ error' = init.flag
        /\ store' = EmptyTable
        /\ IF init.flag
           THEN /\ native' = IF init.ptr # "nullptr"
                             THEN NativeCall("datatable_delete", init.ptr, <<>>, "return", "void")
                             ELSE NativeCall("datatable_init", "none", <<>>, "return", init.ptr)
                /\ gocall' = GoCall("NewDataTable", <<>>,
                                    <<"splinter_datatable_init", "splinter_get_error">>
                                        \o (IF init.ptr # "nullptr"
                                            THEN <<"splinter_datatable_delete">> ELSE <<>>),
                                    "none", "nil", getErrorIfExists(init.flag))
                /\ dt' = dt
           ELSE /\ native' = NativeCall("datatable_init", "none", <<>>, "return", init.ptr)
                /\ gocall' = GoCall("NewDataTable", <<>>,
                                    <<"splinter_datatable_init", "splinter_get_error">>,
                                    "none", "DataTable", "nil")
                /\ dt' = [ptr |-> init.ptr]
        /\ UNCHANGED <<eigen, _data, fields, call, bs, builder>>

\* DataTable.Free: the table is deleted, none of it is left, and ptr is set to nil
DataTable_Free ==
    /\ dt # nil
    /\ error' = (dt.ptr # "datatable_ptr")
    /\ native' = NativeCall("datatable_delete", dt.ptr, <<>>, "return", "void")
    /\ gocall' = GoCall("DataTable.Free", <<>>, <<"splinter_datatable_delete">>,
                        "none", "none", "none")
    /\ store' = EmptyTable
    /\ dt' = [ptr |-> "nullptr"]
    /\ UNCHANGED <<eigen, _data, fields, call, bs, builder>>

\* AddColumns returns err before any call of the C interface
AddColumnsRefused(columns, err) ==
    /\ gocall' = GoCall("AddColumns", columns, <<>>, "none", "none", err)
    /\ UNCHANGED <<outside, _data, fields, call, error, native, bs, gowrappers>>

AddColumns(columns) ==
    /\ dt # nil
    /\ IF Len(columns) = 0 THEN AddColumnsRefused(columns, "nil")
       ELSE LET n == Len(columns[1])
                d == Len(columns) - 1
                concat == Concat(columns)
                known == dt.ptr = "datatable_ptr"
                fits == store.numSamples = 0 \/ store.numVariables = d
            IN  IF \E i \in 2..Len(columns) : Len(columns[i]) # n
                THEN AddColumnsRefused(columns, "ErrLengthMismatch")
                ELSE IF concat = <<>>
                THEN /\ gocall' = GoCall("AddColumns", columns, <<>>, "panic", "none",
                                         "index out of range")
                     /\ UNCHANGED <<outside, _data, fields, call, error, native, bs,
                                    gowrappers>>
                ELSE /\ store.numSamples + n <= MaxRows
                     /\ error' = ~(known /\ fits)
                     /\ store' = IF known /\ fits
                                 THEN add_samples_col_major(store, concat, n, d)
                                 ELSE store
                     /\ native' = NativeCall("datatable_add_samples_col_major", dt.ptr,
                                             <<concat, n, d>>, "return", "void")
                     /\ gocall' = GoCall("AddColumns", columns,
                                         <<"splinter_datatable_add_samples_col_major",
                                           "splinter_get_error">>,
                                         "concat[0]", "none", getErrorIfExists(error'))
                     /\ UNCHANGED <<eigen, _data, fields, call, bs, gowrappers>>

\* BSpline::Builder::Builder(data) for the Builder that new allocates
Builder(data) ==
    /\ _data' = data
    /\ _degrees' = getBSplineDegrees(data.numVariables, 3)
    /\ _numBasisFunctions' = Fill(data.numVariables, 0)
    /\ _knotSpacing' = "AS_SAMPLED"
    /\ _smoothing' = "NONE"
    /\ _alpha' = Rat(1, 10)
    /\ _padding' = Dbl(0)
    /\ _weights' = <<>>
    /\ _bounds' = <<>>
    /\ _hfsIters' = 0
    /\ call' = [op |-> "Builder", arg |-> <<>>, status |-> "ok"]

\* a Builder was allocated and deleted again: the one the program holds is as it was
BuilderDeleted ==
    /\ call' = [op |-> "Builder", arg |-> <<>>, status |-> "ok"]
    /\ UNCHANGED <<_data, fields>>

\* what *dataTable does when get_datatable gave nullptr: the read of address 0
\* ends the process, or the Builder is made of whatever was read
NullDereference == {"SIGSEGV", "return"}

NewBSplineBuilder(table) ==
    IF table = nil
    THEN /\ gocall' = GoCall("NewBSplineBuilder", table, <<>>, "none", "nil", "ErrInvalidNil")
         /\ UNCHANGED <<outside, _data, fields, call, error, native, bs, gowrappers>>
    ELSE IF table.ptr = "datatable_ptr"
    THEN IF error
         THEN /\ BuilderDeleted
              /\ error' = error
              /\ native' = NativeCall("delete", "bspline_builder_ptr", <<>>, "return", "void")
              /\ gocall' = GoCall("NewBSplineBuilder", table,
                                  <<"splinter_bspline_builder_init", "splinter_get_error",
                                    "splinter_bspline_builder_delete">>,
                                  "none", "nil", getErrorIfExists(error))
              /\ UNCHANGED <<outside, bs, gowrappers>>
         ELSE /\ Builder(store)
              /\ error' = error
              /\ native' = NativeCall("init", table.ptr, <<>>, "return", "bspline_builder_ptr")
              /\ gocall' = GoCall("NewBSplineBuilder", table,
                                  <<"splinter_bspline_builder_init", "splinter_get_error">>,
                                  "none", "BSplineBuilder", "nil")
              /\ builder' = NewBSplineBuilderObject
              /\ UNCHANGED <<outside, bs, dt>>
    ELSE \E outcome \in NullDereference :
            /\ error' = TRUE
            /\ IF outcome = "SIGSEGV"
               THEN /\ native' = NativeCall("init", table.ptr, <<>>, outcome, "none")
                    /\ gocall' = GoCall("NewBSplineBuilder", table,
                                        <<"splinter_bspline_builder_init">>,
                                        "none", "none", outcome)
                    /\ UNCHANGED <<_data, fields, call>>
               ELSE /\ BuilderDeleted
                    /\ native' = NativeCall("delete", "bspline_builder_ptr", <<>>,
                                            "return", "void")
                    /\ gocall' = GoCall("NewBSplineBuilder", table,
                                        <<"splinter_bspline_builder_init", "splinter_get_error",
                                          "splinter_bspline_builder_delete">>,
                                        "none", "nil", getErrorIfExists(TRUE))
            /\ UNCHANGED <<outside, bs, gowrappers>>

\* TestBSplinebuilder has run: NewDataTable, then NewBSplineBuilder of the table
InitNew ==
    /\ store = EmptyTable
    /\ eigen = Library(TRUE)
    /\ Constructed(store)
    /\ error = FALSE
    /\ native = NativeCall("init", "datatable_ptr", <<>>, "return", "bspline_builder_ptr")
    /\ gocall = GoCall("NewBSplineBuilder", NewDataTableObject,
                       <<"splinter_bspline_builder_init", "splinter_get_error">>,
                       "none", "BSplineBuilder", "nil")
    /\ bs = ZeroBSpline
    /\ dt = NewDataTableObject
    /\ builder = NewBSplineBuilderObject

\* no columns; one empty column; the samples (0,0), (1,1), (4,2), (9,3); columns
\* of two lengths; one sample of two variables; one sample of no variable
ColumnsInputs ==
    { <<>>,
      << <<>> >>,
      << <<Dbl(0), Dbl(1), Dbl(4), Dbl(9)>>, <<Dbl(0), Dbl(1), Dbl(2), Dbl(3)>> >>,
      << <<Dbl(0)>>, <<Dbl(0), Dbl(1)>> >>,
      << <<Dbl(0)>>, <<Dbl(1)>>, <<Dbl(2)>> >>,
      << <<Dbl(5)>> >> }

\* AS_SAMPLED and EXPERIMENTAL
NewCodeInputs == {0, 2}

\* a function of the C interface was left by a signal or by an exception it did
\* not catch: the process has ended
Ended == native.op # "none" /\ native.exit # "return"

NextNew ==
    \/ ~Ended /\ NewDataTable
    \/ ~Ended /\ DataTable_Free
    \/ ~Ended /\ \E columns \in ColumnsInputs : AddColumns(columns)
    \/ ~Ended /\ \E table \in {nil, dt} : NewBSplineBuilder(table)
    \/ ~Ended /\ \E ks \in NewCodeInputs : BSplineBuilder_KnotSpacing(ks) /\ UNCHANGED gowrappers
    \/ ~Ended /\ Build /\ UNCHANGED gowrappers

SpecNew == InitNew /\ [][NextNew]_vars

----------------------------------------------------------------------------
(* C21 *)

\* the k columns of m values each, one after the other
ColumnMajor(columns, m) ==
    IF m = 0 THEN <<>>
    ELSE [p \in 1..(Len(columns) * m) |-> columns[((p - 1) \div m) + 1][((p - 1) % m) + 1]]

Called(c, function) == \E i \in DOMAIN c.calls : c.calls[i] = function

\* C21: AddColumns with k >= 1 columns of equal length m passes the columns
\* concatenated in argument order with sample count m and dimensionality k-1;
\* with a column of another length than the first it returns ErrLengthMismatch,
\* and with no column nil, in both cases with no call of the native library and
\* the store unchanged.
C21_AddColumns ==
    [][gocall'.op = "AddColumns"
         => LET columns == gocall'.arg
                k == Len(columns)
                equal == \A i \in 1..k : Len(columns[i]) = Len(columns[1])
            IN  /\ k = 0 => /\ gocall'.err = "nil"
                            /\ gocall'.calls = <<>> /\ native' = native /\ store' = store
                /\ (k >= 1 /\ ~equal)
                      => /\ gocall'.err = "ErrLengthMismatch"
                         /\ gocall'.calls = <<>> /\ native' = native /\ store' = store
                /\ (k >= 1 /\ equal)
                      => /\ Called(gocall', "splinter_datatable_add_samples_col_major")
                         /\ native'.op = "datatable_add_samples_col_major"
                         /\ native'.arg = <<ColumnMajor(columns, Len(columns[1])),
                                            Len(columns[1]), k - 1>>]_vars

----------------------------------------------------------------------------
(* C22 *)

Constructors == {"NewDataTable", "NewBSplineBuilder", "Build"}

Wrappers == {"DataTable", "BSplineBuilder", "BSpline"}

\* C22: NewDataTable and then NewBSplineBuilder of its table return a nil error;
\* NewBSplineBuilder(nil) returns ErrInvalidNil with no call of the native
\* library; every constructor returns a wrapper and a nil error, or a nil wrapper
\* and an error, and a native object that came back with an error is deleted.
C22_Constructors ==
    [][LET c == gocall'
       IN  /\ (gocall.op = "NewDataTable" /\ gocall.err = "nil"
                 /\ c.op = "NewBSplineBuilder" /\ c.arg = dt)
                 => c.err = "nil" /\ c.result = "BSplineBuilder"
           /\ (c.op = "NewBSplineBuilder" /\ c.arg = nil)
                 => c.err = "ErrInvalidNil" /\ c.calls = <<>> /\ native' = native
           /\ c.op \in Constructors
                 => \/ c.result \in Wrappers /\ c.err = "nil"
                    \/ c.result = "nil" /\ c.err \in {"ErrInvalidNil", "splinter_get_error_string"}
           /\ (c.op = "NewBSplineBuilder" /\ c.arg = NewDataTableObject /\ c.err # "nil")
                 => Called(c, "splinter_bspline_builder_delete")
           /\ (c.op = "Build" /\ call'.status = "ok" /\ c.err # "nil")
                 => Called(c, "splinter_bspline_delete")]_vars

----------------------------------------------------------------------------
(* build() on systems of 99, 100 and 101 equations, under each answer of the
   two solvers *)

SolveLibraries ==
    {[denseQR |-> dense, sparseLU |-> sparse, trace |-> Dbl(2), penalty |-> Dbl(2),
      residual |-> Dbl(1)] : dense \in BOOLEAN, sparse \in BOOLEAN}

InitSolve ==
    /\ store = S1Table
    /\ eigen \in SolveLibraries
    /\ Constructed(store)
    /\ Unbound

\* EQUIDISTANT knots for n basis functions give n - 2 coefficients
SolveNumBasisInputs == {0, 101, 102, 103}

NextSolve ==
    \/ \E n \in SolveNumBasisInputs : numBasisFunctions(n) /\ UNCHANGED bindings
    \/ \E ks \in KnotSpacing : knotSpacing(ks) /\ UNCHANGED bindings
    \/ \E sm \in Smoothing : smoothing(sm) /\ UNCHANGED bindings
    \/ build /\ UNCHANGED bindings

SpecSolve == InitSolve /\ [][NextSolve]_vars

----------------------------------------------------------------------------
(* C23 *)

\* build() reached the solve of a system
SystemSolved ==
    /\ call.op = "build" /\ call.stage \in {"coefficients", "done"}
    /\ call.system # <<>>

Attempted(solver) == \E i \in DOMAIN call.solvers : call.solvers[i] = solver

\* C23: with q = rows(A), the sparse LU solve is attempted iff q >= 100; the dense
\* QR solve is attempted iff q < 100 or the sparse solve was attempted and
\* failed; computeCoefficients fails with a solver error iff the dense QR solve
\* was attempted and failed; otherwise it returns the solution of the last solve
\* attempted; a successful sparse solve is never followed by a dense solve.
C23_SolveStrategy ==
    SystemSolved
        => LET q == call.system.A.rows
               sparseFailed == Attempted("SparseLU") /\ ~eigen.sparseLU
               failed == call.status = "Exception" /\ call.what = "Failed to solve"
           IN  /\ Attempted("SparseLU") <=> q >= 100
               /\ Attempted("DenseQR") <=> (q < 100 \/ sparseFailed)
               /\ failed <=> (Attempted("DenseQR") /\ ~eigen.denseQR)
               /\ ~failed => /\ call.status = "ok"
                             /\ call.x = IF call.solvers[Len(call.solvers)] = "DenseQR"
                                         THEN "DenseQR.solve(Ad, b, x)"
                                         ELSE "SparseLU.solve(A, b, x)"
               /\ (Attempted("SparseLU") /\ eigen.sparseLU) => call.solvers = <<"SparseLU">>
               /\ Len(call.solvers) = 2 => call.solvers = <<"SparseLU", "DenseQR">>

\* exactly 100 equations, the sparse solve fails and the dense one succeeds
C23_Witness ==
    /\ SystemSolved /\ call.system.A.rows = 100
    /\ ~eigen.sparseLU /\ eigen.denseQR
    /\ call.solvers = <<"SparseLU", "DenseQR">> /\ call.status = "ok"

\* 99 equations go straight to the dense solve, which fails
C23_WitnessDenseFails ==
    /\ SystemSolved /\ call.system.A.rows = 99
    /\ call.solvers = <<"DenseQR">> /\ call.status = "Exception"

----------------------------------------------------------------------------
(* getSecondOrderFiniteDifferenceMatrix on the basis counts of a spline of one
   to three variables *)

\* largest number of basis functions on an axis
MaxBasis == 6

BasisCountInputs == UNION {[1..d -> 2..MaxBasis] : d \in 1..3}

\* D for a spline with the counts numBasis, as computeCoefficients asks for it
secondOrderFiniteDifference(numBasis) ==
    /\ call' = [op |-> "getSecondOrderFiniteDifferenceMatrix", arg |-> numBasis,
                status |-> getSecondOrderFiniteDifferenceMatrix(numBasis).status,
                D |-> getSecondOrderFiniteDifferenceMatrix(numBasis)]
    /\ UNCHANGED <<outside, _data, fields>>

InitD ==
    /\ store = S1Table
    /\ eigen = Library(TRUE)
    /\ Constructed(store)
    /\ Unbound

NextD ==
    \E numBasis \in BasisCountInputs : secondOrderFiniteDifference(numBasis) /\ UNCHANGED bindings

SpecD == InitD /\ [][NextD]_vars

----------------------------------------------------------------------------
(* C24 *)

\* D was built for basis counts that are all at least three
DBuilt ==
    /\ call.op = "getSecondOrderFiniteDifferenceMatrix"
    /\ \A a \in DOMAIN call.arg : call.arg[a] >= 3

\* the distance in the flat coefficient layout between neighbours along axis a:
\* the last axis varies fastest
Stride(counts, a) == Product(SubSeq(counts, a + 1, Len(counts)))

FlatIndex(counts, idx) == Sum([a \in 1..Len(counts) |-> idx[a] * Stride(counts, a)])

\* the second differences along axis a: one for each multi-index whose index on
\* a has two successors
Differences(counts, a) ==
    {idx \in [1..Len(counts) -> 0..(MaxBasis + 1)] :
        /\ \A b \in 1..Len(counts) : idx[b] < counts[b]
        /\ idx[a] + 2 < counts[a]}

DifferenceRow(counts, a, idx) ==
    LET k == FlatIndex(counts, idx)
    IN  << <<k, 1>>, <<k + Stride(counts, a), -2>>, <<k + 2 * Stride(counts, a), 1>> >>

DifferenceRows(counts) ==
    {DifferenceRow(counts, a, idx) : <<a, idx>> \in
        UNION {{<<a, idx>> : idx \in Differences(counts, a)} : a \in 1..Len(counts)}}

\* C24: for basis counts all >= 3, D has N = prod n_i columns and
\* sum_a (n_a - 2) * prod_{k # a} n_k rows; every row has the three non-zeros
\* +1, -2, +1 at the flat positions of l, l+1, l+2 along one axis with the other
\* indices fixed; every such combination is in exactly one row; no column is
\* outside [0, N) and the row index ends at the declared number of rows.
C24_DifferenceMatrix ==
    DBuilt
        => LET counts == call.arg
               D == call.D
               N == Product(counts)
               others(a) == Product([k \in 1..Len(counts) |->
                                        IF k = a THEN counts[a] - 2 ELSE counts[k]])
               rowSet == {D.rows[r] : r \in DOMAIN D.rows}
           IN  /\ D.status = "ok"
               /\ D.numCols = N
               /\ D.numRows = Sum([a \in 1..Len(counts) |-> others(a)])
               /\ D.i = D.numRows
               /\ rowSet = DifferenceRows(counts)
               /\ Cardinality(rowSet) = Len(D.rows)
               /\ \A r \in DOMAIN D.rows : \A e \in 1..3 :
                     D.rows[r][e][1] >= 0 /\ D.rows[r][e][1] < N

\* counts that differ on three axes
C24_Witness ==
    /\ DBuilt /\ call.arg = <<3, 4, 5>>
    /\ call.D.numRows = 1 * 4 * 5 + 3 * 2 * 5 + 3 * 4 * 3
    /\ Len(call.D.rows) = 86

----------------------------------------------------------------------------
(* D times a coefficient vector x, as the HFS loop forms it in (D * x) *)

\* D*x for x indexed from 0: row r is the sum of its entries times x
Times(D, x) ==
    [r \in DOMAIN D.rows |-> Sum([e \in 1..Len(D.rows[r]) |->
                                     D.rows[r][e][2] * x[D.rows[r][e][1]]])]

CoefficientValues == 0..2

\* the numbers of coefficients of the splines below
CoefficientCounts == {3, 4, 9}

\* the library's solution x is any vector of 3, 4 or 9 small coefficients
NullLibraries ==
    {[denseQR |-> TRUE, sparseLU |-> TRUE, trace |-> Dbl(2), penalty |-> Dbl(2),
      residual |-> Dbl(1), x |-> x] :
        x \in UNION {[0..(N - 1) -> CoefficientValues] : N \in CoefficientCounts}}

InitNull ==
    /\ store = S1Table
    /\ eigen \in NullLibraries
    /\ Constructed(store)
    /\ Unbound

NullCountInputs == {<<3>>, <<4>>, <<2, 2>>, <<3, 3>>}

\* D * x for a spline with the counts numBasis whose coefficients are x
DTimesX(numBasis) ==
    /\ Product(numBasis) = Cardinality(DOMAIN eigen.x)
    /\ LET D == getSecondOrderFiniteDifferenceMatrix(numBasis)
       IN  call' = [op |-> "D * x", arg |-> numBasis, status |-> D.status,
                    Dx |-> IF D.status = "ok" THEN Times(D, eigen.x) ELSE <<>>]
    /\ UNCHANGED <<outside, _data, fields>>

NextNull ==
    \E numBasis \in NullCountInputs : DTimesX(numBasis) /\ UNCHANGED bindings

SpecNull == InitNull /\ [][NextNull]_vars

----------------------------------------------------------------------------
(* C25 *)

Multiplied == call.op = "D * x" /\ call.status = "ok"

\* the multi-index idx with its index on axis a replaced by v
OnAxis(idx, a, v) == [idx EXCEPT ![a] = v]

\* c is affine in each index while the other indices are held fixed: along every
\* axis the value at index i is the value at 0 plus i times the first step
AffinePerAxis(counts, c) ==
    \A a \in 1..Len(counts) :
        \A idx \in [1..Len(counts) -> 0..(MaxBasis + 1)] :
            (\A b \in 1..Len(counts) : idx[b] < counts[b])
                => c[FlatIndex(counts, idx)]
                     = c[FlatIndex(counts, OnAxis(idx, a, 0))]
                       + idx[a] * (c[FlatIndex(counts, OnAxis(idx, a, 1))]
                                   - c[FlatIndex(counts, OnAxis(idx, a, 0))])

\* C25: D*c = 0 if and only if the coefficient tensor c is affine in each index
\* when the other indices are held fixed.
C25_Nullspace ==
    Multiplied
        => ((\A r \in DOMAIN call.Dx : call.Dx[r] = 0) <=> AffinePerAxis(call.arg, eigen.x))

\* the tensor 2 - i - j + i*j on the 3 x 3 grid: affine in i and in j, not in both
C25_Witness ==
    /\ Multiplied /\ call.arg = <<3, 3>>
    /\ eigen.x = [p \in 0..8 |-> 2 - (p \div 3) - (p % 3) + (p \div 3) * (p % 3)]
    /\ \A r \in DOMAIN call.Dx : call.Dx[r] = 0

\* a tensor that is affine along the last axis only
C25_WitnessOutside ==
    /\ Multiplied /\ call.arg = <<3, 3>>
    /\ eigen.x = [p \in 0..8 |-> IF p \div 3 = 1 THEN p % 3 ELSE 0]
    /\ \E r \in DOMAIN call.Dx : call.Dx[r] # 0

----------------------------------------------------------------------------
(* C26 *)

\* build() assembled a system and went on to solve it
Assembled ==
    /\ call.op = "build" /\ call.stage \in {"coefficients", "done"}
    /\ call.system # <<>>

\* the lambda one update makes of the lambda l the system was built with
UpdateOf(l) ==
    RDiv(RDiv(RMul(eigen.residual, l),
              RSub(Dbl(_data.numSamples - _data.numVariables), eigen.trace)),
         RDiv(eigen.penalty, eigen.trace))

\* C26: the lambda update runs exactly hfsIters times under PSPLINE and not at
\* all under NONE and IDENTITY, where hfsIters and weights have no part in the
\* system solved; the lambda before the first update is alpha, so with
\* hfsIters = 0 the system is A = B'WB + alpha*D'D, b = B'Wy; each update starts
\* from the A of the lambda before it, and B'WB, D and b stay as assembled.
C26_HfsIterations ==
    Assembled
        => LET n == Product(getNumBasisFunctionsPerVariable(call.knotVectors))
           IN  /\ _smoothing = "PSPLINE"
                    => /\ Len(call.lambdas) = _hfsIters + 1
                       /\ call.lambdas[1] = _alpha
                       /\ \A i \in 1..(Len(call.lambdas) - 1) :
                             call.lambdas[i + 1] = UpdateOf(call.lambdas[i])
                       /\ call.system.A.form = "BtWB + l*DtD"
                       /\ call.system.A.l = call.lambdas[Len(call.lambdas)]
                       /\ call.system.A.W = (IF _weights = <<>>
                                             THEN Fill(_data.numSamples, Dbl(1))
                                             ELSE _weights)
                       /\ call.system.b = "Bt*W*y"
                       /\ call.D = getSecondOrderFiniteDifferenceMatrix(
                                       getNumBasisFunctionsPerVariable(call.knotVectors))
               /\ _smoothing = "NONE"
                    => /\ call.lambdas = <<>>
                       /\ call.system = [A |-> [form |-> "B", rows |-> _data.numSamples],
                                         b |-> "y"]
               /\ _smoothing = "IDENTITY"
                    => /\ call.lambdas = <<>>
                       /\ call.system = [A |-> [form |-> "BtB + alpha*I", alpha |-> _alpha,
                                                rows |-> n],
                                         b |-> "Bt*y"]

\* two updates under PSPLINE with weights given
C26_Witness ==
    /\ Assembled /\ _smoothing = "PSPLINE" /\ _hfsIters = 2
    /\ _weights # <<>> /\ Len(call.lambdas) = 3
    /\ call.lambdas[2] # call.lambdas[1]

\* hfsIters and weights set, and no update under IDENTITY
C26_WitnessIdentity ==
    /\ Assembled /\ _smoothing = "IDENTITY" /\ _hfsIters = 2
    /\ _weights # <<>> /\ call.lambdas = <<>>

----------------------------------------------------------------------------
(* C27 *)

\* build() under PSPLINE ran an HFS iteration in which (D * x).squaredNorm() was 0
ZeroPenalty ==
    /\ Assembled /\ _smoothing = "PSPLINE"
    /\ ~ULess(_hfsIters, 1)
    /\ eigen.penalty = Dbl(0)

\* C27: when ||D*c||^2 is 0 in an HFS iteration, the build fails with a solver
\* error, or stops iterating and solves with the last lambda computed before
\* that iteration; no further iteration and no final solve uses a lambda that
\* came out of the division by zero.
C27_ZeroPenaltyHandled ==
    ZeroPenalty
        => /\ \/ call.status = "Exception" /\ call.what = "Failed to solve"
              \/ /\ call.status = "ok"
                 /\ call.lambdas = <<_alpha>>
                 /\ call.system.A.l = _alpha
           /\ \A i \in 1..(Len(call.lambdas) - 1) : ~isnan(call.lambdas[i])
           /\ call.solvers # <<>> => ~isnan(call.system.A.l)

----------------------------------------------------------------------------
(* C28 *)
(* axes of 5 and of 11 to 13 distinct values with degrees on both sides of   *)
(* maxSegments, so that the segment limit of knotVectorBuckets applies and   *)
(* does not apply                                                           *)

BucketTables == {SquaresTable(n) : n \in {5, 11, 12, 13}} \cup {GridTable}

InitBuckets ==
    /\ store \in BucketTables
    /\ eigen = Library(TRUE)
    /\ Constructed(store)
    /\ Unbound

BucketDegreesInputs == {Fill(getNumVariables, p) : p \in {2, 8, 9, 10, 11}}

BucketNumBasisInputs == {4}

BucketPaddingInputs == {Rat(1, 10)}

BucketBoundsInputs == {Fill(getNumVariables, <<Dbl(-1), Dbl(5)>>)}

NextBuckets ==
    \/ \E v \in BucketDegreesInputs : degrees(v) /\ UNCHANGED bindings
    \/ \E nb \in BucketNumBasisInputs : numBasisFunctions(nb) /\ UNCHANGED bindings
    \/ \E ks \in KnotSpacing : knotSpacing(ks) /\ UNCHANGED bindings
    \/ \E pd \in BucketPaddingInputs : padding(pd) /\ UNCHANGED bindings
    \/ \E bv \in BucketBoundsInputs : bounds(bv) /\ UNCHANGED bindings
    \/ build /\ UNCHANGED bindings

SpecBuckets == InitBuckets /\ [][NextBuckets]_vars

\* the strategies that take (values, degree) only
Sampled == {"AS_SAMPLED", "EXPERIMENTAL"}

Min(a, b) == IF a <= b THEN a ELSE b

\* build() computed the knot vectors under one of the two strategies
KnotsComputed(c) ==
    /\ c.op = "build" /\ c.stage \notin {"grid", "knots"}
    /\ _knotSpacing \in Sampled

\* knots of axis i strictly between the two clamped ends
InteriorKnots(c, i) == Len(c.knotVectors[i]) - 2 * (_degrees[i] + 1)

BasisFunctions(c, i) == Len(c.knotVectors[i]) - _degrees[i] - 1

\* what the strategy in force makes of the values and the degree of axis i
SampledKnots(i) ==
    IF _knotSpacing = "EXPERIMENTAL"
    THEN knotVectorBuckets(getTableX[i], _degrees[i])
    ELSE knotVectorMovingAverage(getTableX[i], _degrees[i])

\* C28: under AS_SAMPLED and EXPERIMENTAL the knot vectors of a build are
\* those of the axis values and the degree alone, whatever numBasisFunctions,
\* bounds and padding were set to, and the build has as many basis functions
\* per axis as distinct values under AS_SAMPLED and min(distinct values, 10)
\* under EXPERIMENTAL with an interior knot.
C28_KnotsOfValuesAndDegree ==
    KnotsComputed(call) =>
        \A i \in 1..getNumVariables :
            /\ call.knotVectors[i] = SampledKnots(i).knots
            /\ _knotSpacing = "AS_SAMPLED"
                 => BasisFunctions(call, i) = NumDistinct(i)
            /\ (_knotSpacing = "EXPERIMENTAL" /\ InteriorKnots(call, i) >= 1)
                 => BasisFunctions(call, i) = Min(NumDistinct(i), maxSegments)

====
